---- MODULE Spec2Model ----
(***************************************************************************)
(* Routing and trade orchestration of the Swarm trading SDK:               *)
(*   swarm/trading_sdk/routing.py        Router.select_platform            *)
(*   swarm/trading_sdk/sdk/client.py     TradingClient.trade and probes    *)
(*   libs/cross_chain_access_sdk/sdk/client.py  CrossChainAccessClient     *)
(*   swarm/market_maker_sdk/sdk/client.py       MarketMakerClient          *)
(*                                                                         *)
(* Decimal values are exact rationals [n, d] in lowest terms.  Python's    *)
(* Decimal division rounds to 28 significant digits; rounding is monotone  *)
(* and two different quotients of the amounts used here differ by far more *)
(* than 10^-28, so every comparison agrees with the exact one.             *)
(* Strings built by f-strings are sequences of tokens; "contains" is       *)
(* contiguous sub-sequence.  Optional[T] is a sequence of length <= 1.     *)
(***************************************************************************)
EXTENDS Integers, Sequences, FiniteSets, TLC

\* ------------------------------------------------------------- bounds
MaxAmount == 2       \* largest sell/buy amount a Market Maker quote carries
MaxPrice == 2        \* largest ask price a Cross-Chain Access quote carries
MaxArgAmount == 1    \* largest amount a caller passes

\* ------------------------------------------------------------- Optional
None == <<>>
Some(x) == <<x>>
IsNone(o) == o = <<>>
Get(o) == o[1]

\* ------------------------------------------------------------- Decimal
RECURSIVE GCD(_, _)
GCD(a, b) == IF b = 0 THEN a ELSE GCD(b, a % b)

Dec(n, d) == LET g == GCD(n, d) IN [n |-> n \div g, d |-> d \div g]
DecInt(n) == [n |-> n, d |-> 1]
DecZero == DecInt(0)
DecIsZero(x) == x.n = 0
DecDiv(x, y) == Dec(x.n * y.d, x.d * y.n)
DecLe(x, y) == x.n * y.d <= y.n * x.d
DecLt(x, y) == x.n * y.d < y.n * x.d
DecEq(x, y) == x.n * y.d = y.n * x.d

\* ------------------------------------------------------------- strings
\* f-string rendering of an Optional[str]: None prints as "None"
Format(o) == IF IsNone(o) THEN <<"None">> ELSE Get(o)
\* truthiness of an Optional[str]: None and "" are falsy
Truthy(o) == ~IsNone(o) /\ Get(o) # <<>>
\* "sep".join(parts)
RECURSIVE Join(_, _)
Join(parts, sep) ==
    IF parts = <<>> THEN <<>>
    ELSE IF Len(parts) = 1 THEN parts[1]
    ELSE parts[1] \o <<sep>> \o Join(Tail(parts), sep)
\* sub in msg
Contains(msg, sub) ==
    \E i \in 0..(Len(msg) - Len(sub)) : SubSeq(msg, i + 1, i + Len(sub)) = sub

\* ------------------------------------------------------------- call results
Return(v) == [kind |-> "return", value |-> v]
Raise(t, m) == [kind |-> "raise", type |-> t, msg |-> m]
IsRaise(r) == r.kind = "raise"
IsReturn(r) == r.kind = "return"

\* ------------------------------------------------------------- routing.py
BEST_PRICE == "best_price"
CROSS_CHAIN_ACCESS_FIRST == "cross_chain_access_first"
MARKET_MAKER_FIRST == "market_maker_first"
CROSS_CHAIN_ACCESS_ONLY == "cross_chain_access_only"
MARKET_MAKER_ONLY == "market_maker_only"
RoutingStrategy ==
    {BEST_PRICE, CROSS_CHAIN_ACCESS_FIRST, MARKET_MAKER_FIRST,
     CROSS_CHAIN_ACCESS_ONLY, MARKET_MAKER_ONLY}

CCA == "cross_chain_access"
MM == "market_maker"

Quote(sell, buy, rate, source) ==
    [sell_amount |-> sell, buy_amount |-> buy, rate |-> rate, source |-> source]

PlatformOption(platform, quote, available, error) ==
    [platform |-> platform, quote |-> quote, available |-> available, error |-> error]

get_effective_rate(option) ==
    IF IsNone(option.quote) THEN DecZero
    ELSE IF DecIsZero(Get(option.quote).sell_amount) THEN DecZero
    ELSE DecDiv(Get(option.quote).buy_amount, Get(option.quote).sell_amount)

OptionAvailable(option) == option.available /\ ~IsNone(option.quote)

\* variant: the Market Maker error is left out of the message
NoPlatformsMessage_OnlyFirst(cross_chain_access_option, market_maker_option) ==
    <<"No platforms available. ">>
        \o (IF Truthy(cross_chain_access_option.error)
            THEN <<"Cross-Chain Access: ">> \o Get(cross_chain_access_option.error)
            ELSE <<>>)

NoPlatformsMessage(cross_chain_access_option, market_maker_option) ==
    LET errors ==
            (IF Truthy(cross_chain_access_option.error)
             THEN << <<"Cross-Chain Access: ">> \o Get(cross_chain_access_option.error) >>
             ELSE <<>>)
            \o
            (IF Truthy(market_maker_option.error)
             THEN << <<"Market Maker: ">> \o Get(market_maker_option.error) >>
             ELSE <<>>)
    IN <<"No platforms available. ">> \o Join(errors, "; ")

\* variant: strict comparisons, so a tie goes to Market Maker
BestPriceChoice_Strict(cross_chain_access_option, market_maker_option, is_buy) ==
    LET cross_chain_access_rate == get_effective_rate(cross_chain_access_option)
        market_maker_rate == get_effective_rate(market_maker_option)
    IN IF is_buy
       THEN IF DecLt(cross_chain_access_rate, market_maker_rate)
            THEN cross_chain_access_option ELSE market_maker_option
       ELSE IF DecLt(market_maker_rate, cross_chain_access_rate)
            THEN cross_chain_access_option ELSE market_maker_option

BestPriceChoice(cross_chain_access_option, market_maker_option, is_buy) ==
    LET cross_chain_access_rate == get_effective_rate(cross_chain_access_option)
        market_maker_rate == get_effective_rate(market_maker_option)
    IN IF is_buy
       THEN IF DecLe(cross_chain_access_rate, market_maker_rate)
            THEN cross_chain_access_option ELSE market_maker_option
       ELSE IF DecLe(market_maker_rate, cross_chain_access_rate)
            THEN cross_chain_access_option ELSE market_maker_option

\* variant: the two venues are tried in the opposite order
FirstChoice_OtherFirst(preferred_option, other_option) ==
    IF OptionAvailable(other_option) THEN Some(other_option)
    ELSE IF OptionAvailable(preferred_option) THEN Some(preferred_option)
    ELSE None

\* a *_FIRST strategy: the preferred venue, else the other, else fall through
FirstChoice(preferred_option, other_option) ==
    IF OptionAvailable(preferred_option) THEN Some(preferred_option)
    ELSE IF OptionAvailable(other_option) THEN Some(other_option)
    ELSE None

select_platform(cross_chain_access_option, market_maker_option, strategy, is_buy) ==
    LET cross_chain_access_available == OptionAvailable(cross_chain_access_option)
        market_maker_available == OptionAvailable(market_maker_option)
        Fallthrough ==
            Return(IF cross_chain_access_available
                   THEN cross_chain_access_option ELSE market_maker_option)
    IN
    IF ~cross_chain_access_available /\ ~market_maker_available
    THEN Raise("NoLiquidityException",
               NoPlatformsMessage(cross_chain_access_option, market_maker_option))
    ELSE IF strategy = CROSS_CHAIN_ACCESS_ONLY
    THEN IF ~cross_chain_access_available
         THEN Raise("NoLiquidityException",
                    <<"Cross-Chain Access not available: ">>
                        \o Format(cross_chain_access_option.error))
         ELSE Return(cross_chain_access_option)
    ELSE IF strategy = MARKET_MAKER_ONLY
    THEN IF ~market_maker_available
         THEN Raise("NoLiquidityException",
                    <<"Market Maker not available: ">>
                        \o Format(market_maker_option.error))
         ELSE Return(market_maker_option)
    ELSE IF /\ strategy = CROSS_CHAIN_ACCESS_FIRST
            /\ ~IsNone(FirstChoice(cross_chain_access_option, market_maker_option))
    THEN Return(Get(FirstChoice(cross_chain_access_option, market_maker_option)))
    ELSE IF /\ strategy = MARKET_MAKER_FIRST
            /\ ~IsNone(FirstChoice(market_maker_option, cross_chain_access_option))
    THEN Return(Get(FirstChoice(market_maker_option, cross_chain_access_option)))
    ELSE IF strategy = BEST_PRICE
    THEN IF cross_chain_access_available /\ ~market_maker_available
         THEN Return(cross_chain_access_option)
         ELSE IF market_maker_available /\ ~cross_chain_access_available
         THEN Return(market_maker_option)
         ELSE Return(BestPriceChoice(cross_chain_access_option,
                                     market_maker_option, is_buy))
    ELSE Fallthrough

\* ------------------------------------------------------------- venue quotes
\* RPQClient.get_quote: the API's amounts become Decimals, the rate is derived
rpq_get_quote(api_sell_amount, api_buy_amount) ==
    LET sell_amount == DecInt(api_sell_amount)
        buy_amount == DecInt(api_buy_amount)
        rate == IF api_sell_amount > 0 THEN DecDiv(buy_amount, sell_amount) ELSE DecZero
    IN Return(Quote(sell_amount, buy_amount, rate, "Market Maker RPQ"))

\* CrossChainAccessClient.get_quote: one unit sold at the ask price;
\* Decimal("1") / 0 raises decimal.DivisionByZero
cca_get_quote(ask_price) ==
    IF ask_price = 0
    THEN Raise("DivisionByZero", <<"[<class 'decimal.DivisionByZero'>]">>)
    ELSE Return(Quote(DecInt(1), DecDiv(DecInt(1), DecInt(ask_price)),
                      DecInt(ask_price), CCA))

\* what the quote request of each venue can come back with
QuoteFailures ==
    {Raise("APIException", <<"timeout">>), Raise("Exception", <<>>)}
MarketMakerQuoteResults ==
    {rpq_get_quote(s, b) : s \in 0..MaxAmount, b \in 0..MaxAmount}
        \cup QuoteFailures \cup {Raise("NoOffersAvailableException", <<"no offers">>)}
CrossChainAccessQuoteResults ==
    {cca_get_quote(p) : p \in 0..MaxPrice}
        \cup QuoteFailures \cup {Raise("MarketClosedException", <<"market is closed">>)}

\* ------------------------------------------------------------- probes
\* variant: the exception of the quote request is dropped, not recorded
_get_market_maker_option_NoError(result) ==
    IF IsReturn(result)
    THEN PlatformOption(MM, Some(result.value), TRUE, None)
    ELSE PlatformOption(MM, None, TRUE, None)

_get_market_maker_option(result) ==
    IF IsReturn(result)
    THEN PlatformOption(MM, Some(result.value), TRUE, None)
    ELSE PlatformOption(MM, None, FALSE, Some(result.msg))

SymbolNotProvided == PlatformOption(CCA, None, FALSE, Some(<<"Symbol not provided">>))

_get_cross_chain_access_option(result) ==
    IF IsReturn(result)
    THEN PlatformOption(CCA, Some(result.value), TRUE, None)
    ELSE IF result.type = "MarketClosedException"
    THEN PlatformOption(CCA, None, FALSE, Some(<<"Market closed">>))
    ELSE PlatformOption(CCA, None, FALSE, Some(result.msg))

\* ------------------------------------------------------------- trade() helpers
\* Optional[Decimal] arguments
AmountArgs == {None} \cup {Some(DecInt(a)) : a \in 0..MaxArgAmount}
AmountTruthy(o) == ~IsNone(o) /\ ~DecIsZero(Get(o))
\* Optional[str] to_token_symbol; "" is falsy
SymbolArgs == {None, Some(""), Some("AAPL")}
SymbolTruthy(o) == ~IsNone(o) /\ Get(o) # ""

\* variant: only "neither amount" is rejected
AmountsInvalid_NeitherOnly(a, b) ==
    IsNone(a) /\ IsNone(b)

\* the "exactly one amount" check of trade(), buy() and sell()
AmountsInvalid(a, b) ==
    (~IsNone(a) /\ ~IsNone(b)) \/ (IsNone(a) /\ IsNone(b))

\* variant: only BEST_PRICE falls back
FallbackAllowed_BestPriceOnly(strategy) ==
    strategy = BEST_PRICE

\* variant: every strategy falls back
FallbackAllowed_Always(strategy) ==
    strategy \in RoutingStrategy

FallbackAllowed(strategy) ==
    strategy = BEST_PRICE
        \/ strategy \in {CROSS_CHAIN_ACCESS_FIRST, MARKET_MAKER_FIRST}

\* variant: the fallback runs on the venue that has just failed
FallbackPlatform_Same(selected_platform) ==
    selected_platform

FallbackPlatform(selected_platform) ==
    IF selected_platform = CCA THEN MM ELSE CCA

\* variant: the primary error is formatted twice
AllPlatformsFailedMessage_PrimaryTwice(selected_platform, e, fallback_platform, fallback_error) ==
    <<"Primary (", selected_platform, "): ">> \o e.msg
        \o <<". Fallback (", fallback_platform, "): ">> \o e.msg

AllPlatformsFailedMessage(selected_platform, e, fallback_platform, fallback_error) ==
    <<"Primary (", selected_platform, "): ">> \o e.msg
        \o <<". Fallback (", fallback_platform, "): ">> \o fallback_error.msg

\* variant: a bare re-raise of the executor's exception
NoFallbackError_Reraise(e) == e

NoFallbackError(e) == Raise("TradingException", <<"Trade failed: ">> \o e.msg)

TradeResult(source) == [source |-> source, status |-> "completed"]

\* ------------------------------------------------------------- state
VARIABLES
    pc,                         \* position of the call in progress
    call,                       \* which entry point was called
    self_routing_strategy,      \* TradingClient.routing_strategy
    args,                       \* trade(): from_amount, to_amount, to_token_symbol
    strategy,                   \* trade(): routing_strategy or self.routing_strategy
    is_buy,                     \* trade(): from_amount is not None
    market_maker_option,        \* Optional[PlatformOption]
    cross_chain_access_option,  \* Optional[PlatformOption]
    mm_quote_result,            \* Optional: what market_maker_client.get_quote did
    cca_quote_result,           \* Optional: what cross_chain_access_client.get_quote did
    selected,                   \* Optional[PlatformOption] chosen by the router
    phase,                      \* "primary" or "fallback" executor
    primary_error,              \* Optional: the exception e of the primary executor
    executions,                 \* executors invoked by this call, in order
    events,                     \* requests and side effects of this call, in order
    router_in,                  \* Optional: arguments of a direct select_platform call
    cca_pc,                     \* position inside CrossChainAccessClient.buy / sell
    cca_args,                   \* Optional: side, rwa_amount, usdc_amount
    auth_token,                 \* cross_chain_access_api.auth_token is set
    mm_pc,                      \* position inside MarketMakerClient.trade
    exec_result,                \* Optional: what the executor in progress came back with
    outcome,                    \* Optional: what the call returned or raised
    web3_async,                 \* Web3Helper's methods are coroutine functions
    token_expired,              \* utcnow() >= expires_at of the tokens last issued
    cca_local,                  \* locals of CrossChainAccessClient._execute_trade
    transfers,                  \* ERC20 transfers broadcast by this call, in order
    api_calls,                  \* authenticated Cross-Chain Access requests, in order
    mm_local,                   \* locals of MarketMakerClient.trade and take_offer_*
    allowance,                  \* per token: the manager contract's allowance, in wei
    mm_txs,                     \* approve / take transactions broadcast by this call
    _prod_fetcher,              \* remote_config._prod_fetcher
    _fetcher_lock,              \* Optional: the coroutine holding remote_config._fetcher_lock
    cfg_pc,                     \* position of each coroutine inside get_config_fetcher
    cfg_call,                   \* what each coroutine called
    cfg_result,                 \* Optional: what each coroutine's call came back with
    fetch_log,                  \* the coroutines with a remote fetch in flight
    close_pc,                   \* position of the coroutine inside close_config_fetchers
    mh_dt,                      \* Optional: the datetime handed to MarketHours.is_market_open
    mh_utc,                     \* Optional: the instant that datetime stands for, in UTC
    mh_is_open                  \* Optional: what is_market_open returned

vars ==
    <<pc, call, self_routing_strategy, args, strategy, is_buy, market_maker_option,
      cross_chain_access_option, mm_quote_result, cca_quote_result, selected, phase, primary_error, executions, events,
      router_in, cca_pc, cca_args, auth_token, mm_pc, exec_result, outcome,
      web3_async, token_expired, cca_local, transfers, api_calls, mm_local, allowance,
      mm_txs, _prod_fetcher, _fetcher_lock, cfg_pc, cfg_call, cfg_result, fetch_log,
      close_pc, mh_dt, mh_utc, mh_is_open>>

tradeVars ==
    <<args, strategy, is_buy, market_maker_option, cross_chain_access_option,
      mm_quote_result, cca_quote_result, selected, phase, primary_error, executions>>
ccaVars == <<cca_pc, cca_args, auth_token, exec_result>>
execVars ==
    <<web3_async, token_expired, cca_local, transfers, api_calls, mm_local, allowance,
      mm_txs>>
configVars ==
    <<_prod_fetcher, _fetcher_lock, cfg_pc, cfg_call, cfg_result, fetch_log, close_pc>>
marketVars == <<mh_dt, mh_utc, mh_is_open>>

\* _execute_trade's locals, unassigned; coroutines names the locals bound to a
\* coroutine object, order_called and create_order_tx_hash record the create_order
\* call, order_id is order_response.order_id
CcaLocals ==
    [is_available |-> None, message |-> None, price |-> None, final_rwa |-> None,
     final_usdc |-> None, funds |-> None, transfer_token |-> None,
     transfer_amount |-> None, tx_hash |-> None, order_called |-> FALSE,
     create_order_tx_hash |-> None, order_id |-> None, coroutines |-> {}]

\* MarketMakerClient.trade's and take_offer_*'s locals, unassigned; allowance_wei is
\* what allowance(owner, spender) gave when get_allowance ran
MmLocals ==
    [selected_offer |-> None, token_decimals |-> None, normalized_amount |-> None,
     allowance_wei |-> None, current_allowance |-> None, max_rate_wei |-> None,
     contract_error |-> None, take_offer_raised |-> None, coroutines |-> {}]

\* the tokens a taker pays with, by symbol
WithdrawalTokens == {"USDC", "DAI"}

Coroutines == {1, 2}

ExecVarsInit ==
    /\ token_expired = FALSE
    /\ cca_local = CcaLocals
    /\ transfers = <<>>
    /\ api_calls = <<>>
    /\ mm_local = MmLocals
    /\ allowance = [t \in WithdrawalTokens |-> 0]
    /\ mm_txs = <<>>

MarketVarsInit ==
    /\ mh_dt = None
    /\ mh_utc = None
    /\ mh_is_open = None

ConfigVarsInit ==
    /\ _prod_fetcher = None
    /\ _fetcher_lock = None
    /\ cfg_pc = [c \in Coroutines |-> "idle"]
    /\ cfg_call = [c \in Coroutines |-> None]
    /\ cfg_result = [c \in Coroutines |-> None]
    /\ fetch_log = <<>>
    /\ close_pc = "idle"

TradingInit ==
    /\ pc = "idle"
    /\ call = "none"
    /\ self_routing_strategy \in RoutingStrategy
    /\ args = None
    /\ strategy = None
    /\ is_buy = FALSE
    /\ market_maker_option = None
    /\ cross_chain_access_option = None
    /\ mm_quote_result = None
    /\ cca_quote_result = None
    /\ selected = None
    /\ phase = "none"
    /\ primary_error = None
    /\ executions = <<>>
    /\ events = <<>>
    /\ router_in = None
    /\ cca_pc = "idle"
    /\ cca_args = None
    /\ auth_token = FALSE
    /\ mm_pc = "idle"
    /\ exec_result = None
    /\ outcome = None

\* Web3Helper as the sources have it: every method is a coroutine function
Init ==
    /\ TradingInit
    /\ web3_async = TRUE
    /\ ExecVarsInit
    /\ ConfigVarsInit
    /\ MarketVarsInit

\* ------------------------------------------------------------- Router, called directly
Errors(platform) ==
    {None, Some(<<>>),
     Some(IF platform = CCA THEN <<"Market closed">> ELSE <<"timeout">>)}
Quotes(source) ==
    {Quote(DecInt(s), DecInt(b), IF s > 0 THEN Dec(b, s) ELSE DecZero, source) :
        s \in 0..MaxAmount, b \in 0..MaxAmount}
PlatformOptions(platform) ==
    {PlatformOption(platform, q, a, e) :
        q \in {None} \cup {Some(x) : x \in Quotes(platform)},
        a \in BOOLEAN, e \in Errors(platform)}

SelectPlatformCall ==
    /\ UNCHANGED <<execVars, configVars, marketVars>>
    /\ pc = "idle"
    /\ \E c \in PlatformOptions(CCA), m \in PlatformOptions(MM),
          s \in RoutingStrategy, b \in BOOLEAN :
        /\ router_in' = Some([cross_chain_access_option |-> c, market_maker_option |-> m,
                              strategy |-> s, is_buy |-> b])
        /\ outcome' = Some(select_platform(c, m, s, b))
    /\ call' = "select_platform"
    /\ pc' = "done"
    /\ UNCHANGED <<self_routing_strategy, tradeVars, events, ccaVars, mm_pc>>

\* ------------------------------------------------------------- TradingClient.trade
TradeCall ==
    /\ UNCHANGED <<execVars, configVars, marketVars>>
    /\ pc = "idle"
    /\ call' = "trade"
    /\ \E from_amount \in AmountArgs, to_amount \in AmountArgs,
          to_token_symbol \in SymbolArgs,
          routing_strategy \in {None} \cup {Some(s) : s \in RoutingStrategy} :
        /\ args' = Some([from_amount |-> from_amount, to_amount |-> to_amount,
                         to_token_symbol |-> to_token_symbol])
        /\ IF AmountsInvalid(from_amount, to_amount)
           THEN /\ outcome' = Some(Raise("ValueError",
                        <<"Must provide either from_amount OR to_amount, not both">>))
                /\ pc' = "done"
                /\ UNCHANGED <<strategy, is_buy>>
           ELSE /\ strategy' = Some(IF IsNone(routing_strategy)
                                    THEN self_routing_strategy
                                    ELSE Get(routing_strategy))
                /\ is_buy' = ~IsNone(from_amount)
                /\ pc' = "mm_probe"
                /\ UNCHANGED outcome
    /\ UNCHANGED <<self_routing_strategy, market_maker_option, cross_chain_access_option,
                   mm_quote_result, cca_quote_result, selected, phase, primary_error,
                   executions, events, router_in, ccaVars, mm_pc>>

\* variant: both quote requests are sent at once, as asyncio.gather would
MarketMakerQuoteRequest_AlsoCca ==
    /\ UNCHANGED <<execVars, configVars, marketVars>>
    /\ pc = "mm_probe"
    /\ events' = events \o <<"mm_get_quote", "cca_get_quote">>
    /\ pc' = "mm_wait"
    /\ UNCHANGED <<call, self_routing_strategy, tradeVars, router_in, ccaVars, mm_pc,
                   outcome>>

\* _get_market_maker_option: the quote request is sent ...
MarketMakerQuoteRequest ==
    /\ UNCHANGED <<execVars, configVars, marketVars>>
    /\ pc = "mm_probe"
    /\ events' = Append(events, "mm_get_quote")
    /\ pc' = "mm_wait"
    /\ UNCHANGED <<call, self_routing_strategy, tradeVars, router_in, ccaVars, mm_pc,
                   outcome>>

\* ... and comes back with a quote or an exception
MarketMakerQuoteResponse ==
    /\ UNCHANGED <<execVars, configVars, marketVars>>
    /\ pc = "mm_wait"
    /\ \E result \in MarketMakerQuoteResults :
        /\ mm_quote_result' = Some(result)
        /\ market_maker_option' = Some(_get_market_maker_option(result))
    /\ pc' = "cca_probe"
    /\ UNCHANGED <<call, self_routing_strategy, args, strategy, is_buy,
                   cross_chain_access_option, cca_quote_result, selected, phase, primary_error,
                   executions, events, router_in, ccaVars, mm_pc, outcome>>

\* _get_cross_chain_access_option if to_token_symbol else "Symbol not provided"
CrossChainAccessQuoteRequest ==
    /\ UNCHANGED <<execVars, configVars, marketVars>>
    /\ pc = "cca_probe"
    /\ IF SymbolTruthy(Get(args).to_token_symbol)
       THEN /\ events' = Append(events, "cca_get_quote")
            /\ pc' = "cca_wait"
            /\ UNCHANGED cross_chain_access_option
       ELSE /\ cross_chain_access_option' = Some(SymbolNotProvided)
            /\ pc' = "route"
            /\ UNCHANGED events
    /\ UNCHANGED <<call, self_routing_strategy, args, strategy, is_buy,
                   market_maker_option, mm_quote_result, cca_quote_result, selected,
                   phase, primary_error, executions, router_in, ccaVars, mm_pc, outcome>>

CrossChainAccessQuoteResponse ==
    /\ UNCHANGED <<execVars, configVars, marketVars>>
    /\ pc = "cca_wait"
    /\ \E result \in CrossChainAccessQuoteResults :
        /\ cca_quote_result' = Some(result)
        /\ cross_chain_access_option' = Some(_get_cross_chain_access_option(result))
    /\ pc' = "route"
    /\ UNCHANGED <<call, self_routing_strategy, args, strategy, is_buy,
                   market_maker_option, mm_quote_result, selected, phase, primary_error, executions,
                   events, router_in, ccaVars, mm_pc, outcome>>

\* Step 2: Router.select_platform; NoLiquidityException is re-raised
Route ==
    /\ UNCHANGED <<execVars, configVars, marketVars>>
    /\ pc = "route"
    /\ events' = Append(events, "select_platform")
    /\ LET r == select_platform(Get(cross_chain_access_option), Get(market_maker_option),
                                Get(strategy), is_buy)
       IN IF IsRaise(r)
          THEN /\ outcome' = Some(r)
               /\ pc' = "done"
               /\ UNCHANGED <<selected, phase>>
          ELSE /\ selected' = Some(r.value)
               /\ phase' = "primary"
               /\ pc' = "exec"
               /\ UNCHANGED outcome
    /\ UNCHANGED <<call, self_routing_strategy, args, strategy, is_buy,
                   market_maker_option, cross_chain_access_option, mm_quote_result,
                   cca_quote_result, primary_error, executions, router_in, ccaVars,
                   mm_pc>>

\* ------------------------------------------------------------- CrossChainAccessClient
\* the address trade() was given as to_token
TO_TOKEN == "to_token"

\* buy() / sell() up to the first await: the amount check, then _execute_trade
CcaEnter(side, rwa_token_address, rwa_amount, usdc_amount) ==
    /\ cca_args' = Some([side |-> side, rwa_token_address |-> rwa_token_address,
                         rwa_amount |-> rwa_amount, usdc_amount |-> usdc_amount])
    /\ IF AmountsInvalid(rwa_amount, usdc_amount)
       THEN /\ exec_result' = Some(Raise("ValueError",
                    <<"Must provide either rwa_amount OR usdc_amount, not both">>))
            /\ cca_pc' = "finished"
       ELSE /\ exec_result' = None
            /\ cca_pc' = "ensure_auth"

CcaFail(type, msg) ==
    /\ exec_result' = Some(Raise(type, msg))
    /\ cca_pc' = "finished"

CcaGoto(next) ==
    /\ cca_pc' = next
    /\ UNCHANGED exec_result

\* Step 0: authenticate when no token is held
CcaEnsureAuth ==
    /\ UNCHANGED <<execVars, configVars, marketVars>>
    /\ cca_pc = "ensure_auth"
    /\ IF auth_token
       THEN /\ CcaGoto("check_availability")
            /\ UNCHANGED <<auth_token, events>>
       ELSE /\ events' = Append(events, "authenticate")
            /\ \/ auth_token' = TRUE /\ CcaGoto("check_availability")
               \/ /\ CcaFail("AuthenticationError", <<"Authentication failed">>)
                  /\ UNCHANGED auth_token
    /\ UNCHANGED <<pc, call, self_routing_strategy, tradeVars, router_in, cca_args,
                   mm_pc, outcome>>

\* Step 1: market hours and account status
CcaCheckAvailability ==
    /\ UNCHANGED <<execVars, configVars, marketVars>>
    /\ cca_pc = "check_availability"
    /\ events' = Append(events, "check_trading_availability")
    /\ \/ CcaGoto("get_quote")
       \/ CcaFail("MarketClosedException", <<"Market is closed">>)
       \/ CcaFail("AccountBlockedException", <<"Trading not available: account blocked">>)
    /\ UNCHANGED <<pc, call, self_routing_strategy, tradeVars, router_in, cca_args,
                   auth_token, mm_pc, outcome>>

\* Step 2: a fresh quote
CcaGetAssetQuote ==
    /\ UNCHANGED <<execVars, configVars, marketVars>>
    /\ cca_pc = "get_quote"
    /\ events' = Append(events, "get_asset_quote")
    /\ \/ CcaGoto("check_funds")
       \/ CcaFail("APIException", <<"timeout">>)
    /\ UNCHANGED <<pc, call, self_routing_strategy, tradeVars, router_in, cca_args,
                   auth_token, mm_pc, outcome>>

\* Steps 3 and 4: the two amounts, then buying power or token balance
CcaCheckFunds ==
    /\ UNCHANGED <<execVars, configVars, marketVars>>
    /\ cca_pc = "check_funds"
    /\ events' = Append(events, "check_funds")
    /\ \/ CcaGoto("transfer")
       \/ CcaFail("InsufficientFundsException", <<"Insufficient funds">>)
    /\ UNCHANGED <<pc, call, self_routing_strategy, tradeVars, router_in, cca_args,
                   auth_token, mm_pc, outcome>>

\* Step 6: the transfer to the topup address
CcaTransfer ==
    /\ UNCHANGED <<execVars, configVars, marketVars>>
    /\ cca_pc = "transfer"
    /\ events' = Append(events, "transfer_token")
    /\ \/ CcaGoto("create_order")
       \/ CcaFail("Web3Exception", <<"reverted">>)
    /\ UNCHANGED <<pc, call, self_routing_strategy, tradeVars, router_in, cca_args,
                   auth_token, mm_pc, outcome>>

\* Step 7: the order, then the TradeResult
CcaCreateOrder ==
    /\ UNCHANGED <<execVars, configVars, marketVars>>
    /\ cca_pc = "create_order"
    /\ events' = Append(events, "create_order")
    /\ \/ /\ exec_result' = Some(Return(TradeResult(CCA)))
          /\ cca_pc' = "finished"
       \/ CcaFail("OrderFailedException", <<"order rejected">>)
    /\ UNCHANGED <<pc, call, self_routing_strategy, tradeVars, router_in, cca_args,
                   auth_token, mm_pc, outcome>>

\* CrossChainAccessClient.buy / sell called by the user
CcaBuyCall ==
    /\ UNCHANGED <<execVars, configVars, marketVars>>
    /\ pc = "idle"
    /\ call' = "cca_buy"
    /\ pc' = "cca_direct"
    /\ UNCHANGED events
    /\ \E rwa_amount \in AmountArgs, usdc_amount \in AmountArgs :
        CcaEnter("buy", "RWA", rwa_amount, usdc_amount)
    /\ UNCHANGED <<self_routing_strategy, tradeVars, router_in, auth_token, mm_pc,
                   outcome>>

CcaSellCall ==
    /\ UNCHANGED <<execVars, configVars, marketVars>>
    /\ pc = "idle"
    /\ call' = "cca_sell"
    /\ pc' = "cca_direct"
    /\ UNCHANGED events
    /\ \E rwa_amount \in AmountArgs, usdc_amount \in AmountArgs :
        CcaEnter("sell", "RWA", rwa_amount, usdc_amount)
    /\ UNCHANGED <<self_routing_strategy, tradeVars, router_in, auth_token, mm_pc,
                   outcome>>

CcaDirectFinish ==
    /\ UNCHANGED <<execVars, configVars, marketVars>>
    /\ pc = "cca_direct"
    /\ cca_pc = "finished"
    /\ outcome' = exec_result
    /\ exec_result' = None
    /\ cca_pc' = "idle"
    /\ pc' = "done"
    /\ UNCHANGED <<call, self_routing_strategy, tradeVars, events, router_in, cca_args,
                   auth_token, mm_pc>>

\* ------------------------------------------------------------- MarketMakerClient.trade
MarketMakerTradeFailures ==
    {Raise("NoOffersAvailableException", <<"No suitable offers found for this trade">>),
     Raise("MarketMakerWeb3Exception", <<"Trade execution failed: ", "reverted">>)}

MarketMakerTradeFinish ==
    /\ UNCHANGED <<execVars, configVars, marketVars>>
    /\ mm_pc = "trading"
    /\ \/ exec_result' = Some(Return(TradeResult(MM)))
       \/ \E f \in MarketMakerTradeFailures : exec_result' = Some(f)
    /\ mm_pc' = "finished"
    /\ UNCHANGED <<pc, call, self_routing_strategy, tradeVars, events, router_in,
                   cca_pc, cca_args, auth_token, outcome>>

\* ------------------------------------------------------------- trade(): Step 3
ExecPlatform ==
    IF phase = "primary" THEN Get(selected).platform
    ELSE FallbackPlatform(Get(selected).platform)

FallbackOption(selected_platform, mm_option, cca_option) ==
    IF selected_platform = CCA THEN mm_option ELSE cca_option

\* variant: the fallback option's availability is not looked at
ShouldFallback_IgnoreAvailability(strat, fallback_option) ==
    FallbackAllowed(strat)

ShouldFallback(strat, fallback_option) ==
    FallbackAllowed(strat) /\ fallback_option.available

\* the selected (or fallback) venue's executor is called
ExecStart ==
    /\ UNCHANGED <<execVars, configVars, marketVars>>
    /\ pc = "exec"
    /\ pc' = "exec_wait"
    /\ executions' = Append(executions,
            [platform |-> ExecPlatform, phase |-> phase, result |-> None])
    /\ events' = Append(events, "execute")
    /\ IF ExecPlatform = CCA
       THEN \* _execute_cross_chain_access_trade(rwa_amount=to_amount, usdc_amount=from_amount)
            /\ IF AmountTruthy(Get(args).from_amount)
               THEN CcaEnter("buy", TO_TOKEN, None, Get(args).from_amount)
               ELSE CcaEnter("sell", TO_TOKEN, Get(args).to_amount, None)
            /\ UNCHANGED mm_pc
       ELSE /\ mm_pc' = "trading"
            /\ UNCHANGED <<cca_pc, cca_args, exec_result>>
    /\ UNCHANGED <<call, self_routing_strategy, args, strategy, is_buy,
                   market_maker_option, cross_chain_access_option, mm_quote_result,
                   cca_quote_result, selected, phase, primary_error, router_in,
                   auth_token, outcome>>

\* the executor came back: return, fall back, or raise
ExecFinish ==
    /\ UNCHANGED <<execVars, configVars, marketVars>>
    /\ pc = "exec_wait"
    /\ cca_pc = "finished" \/ mm_pc = "finished"
    /\ LET r == Get(exec_result)
           selected_platform == Get(selected).platform
           fallback_platform == FallbackPlatform(selected_platform)
           fallback_option == FallbackOption(selected_platform, Get(market_maker_option),
                                             Get(cross_chain_access_option))
       IN /\ executions' = [executions EXCEPT ![Len(executions)].result = Some(r)]
          /\ IF IsReturn(r)
             THEN /\ outcome' = Some(r)
                  /\ pc' = "done"
                  /\ UNCHANGED <<phase, primary_error>>
             ELSE IF phase = "primary"
             THEN IF ShouldFallback(Get(strategy), fallback_option)
                  THEN /\ primary_error' = Some(r)
                       /\ phase' = "fallback"
                       /\ pc' = "exec"
                       /\ UNCHANGED outcome
                  ELSE /\ outcome' = Some(NoFallbackError(r))
                       /\ pc' = "done"
                       /\ UNCHANGED <<phase, primary_error>>
             ELSE /\ outcome' = Some(Raise("AllPlatformsFailedException",
                          AllPlatformsFailedMessage(selected_platform, Get(primary_error),
                                                    fallback_platform, r)))
                  /\ pc' = "done"
                  /\ UNCHANGED <<phase, primary_error>>
    /\ exec_result' = None
    /\ cca_pc' = "idle"
    /\ mm_pc' = "idle"
    /\ UNCHANGED <<call, self_routing_strategy, args, strategy, is_buy,
                   market_maker_option, cross_chain_access_option, mm_quote_result,
                   cca_quote_result, selected, events, router_in, cca_args, auth_token>>

\* the call is over; the client is ready for the next one
Finish ==
    /\ pc = "done"
    /\ pc' = "idle"
    /\ call' = "none"
    /\ args' = None
    /\ strategy' = None
    /\ is_buy' = FALSE
    /\ market_maker_option' = None
    /\ cross_chain_access_option' = None
    /\ mm_quote_result' = None
    /\ cca_quote_result' = None
    /\ selected' = None
    /\ phase' = "none"
    /\ primary_error' = None
    /\ executions' = <<>>
    /\ events' = <<>>
    /\ router_in' = None
    /\ cca_args' = None
    /\ outcome' = None
    /\ cca_local' = CcaLocals
    /\ transfers' = <<>>
    /\ api_calls' = <<>>
    /\ mm_local' = MmLocals
    /\ mm_txs' = <<>>
    /\ UNCHANGED <<self_routing_strategy, cca_pc, auth_token, mm_pc, exec_result,
                   web3_async, token_expired, allowance, configVars, marketVars>>

Next ==
    \/ SelectPlatformCall
    \/ TradeCall
    \/ MarketMakerQuoteRequest
    \/ MarketMakerQuoteResponse
    \/ CrossChainAccessQuoteRequest
    \/ CrossChainAccessQuoteResponse
    \/ Route
    \/ ExecStart
    \/ ExecFinish
    \/ MarketMakerTradeFinish
    \/ CcaBuyCall
    \/ CcaSellCall
    \/ CcaEnsureAuth
    \/ CcaCheckAvailability
    \/ CcaGetAssetQuote
    \/ CcaCheckFunds
    \/ CcaTransfer
    \/ CcaCreateOrder
    \/ CcaDirectFinish
    \/ Finish

Spec == Init /\ [][Next]_vars

\* ------------------------------------------------------------- Web3Helper at the call sites
\* _execute_trade and _approve_token_if_needed call Web3Helper's methods without
\* `await`.  Where the method is a coroutine function (web3_async, as in
\* swarm/shared/web3/helpers.py) the call gives a coroutine object and the method's
\* body never runs; where it is a plain function the call gives the method's result.

TX_HASH == "0x7a1f"

MaxFunds == 1

RWA_DECIMALS == 9
USDC_DECIMALS == 2

DecMul(x, y) == Dec(x.n * y.n, x.d * y.d)

\* variant: ROUND_DOWN, the digits past `places` are dropped
Quantize_Truncate(x, places) ==
    IF 10^places % x.d = 0 THEN x
    ELSE Dec((x.n * 10^places) \div x.d, 10^places)

\* Decimal.quantize(Decimal(10) ** -places), default context: ROUND_HALF_EVEN;
\* a value with no digit past `places` keeps its value
Quantize(x, places) ==
    IF 10^places % x.d = 0 THEN x
    ELSE LET scale == 10^places
             q == (x.n * scale) \div x.d
             r == (x.n * scale) % x.d
             up == 2 * r > x.d \/ (2 * r = x.d /\ q % 2 = 1)
         IN Dec(IF up THEN q + 1 ELSE q, scale)

\* ------------------------------------------------------------- check_trading_availability
MarketClosedMessage == <<"Market is closed. Opens in 17h 30m">>

AccountStatus(account_blocked, trading_blocked, transfers_blocked, suspended, market_open) ==
    [account_blocked |-> account_blocked, trading_blocked |-> trading_blocked,
     transfers_blocked |-> transfers_blocked,
     trade_suspended_by_user |-> suspended, market_open |-> market_open]

AccountStatuses ==
    {AccountStatus(FALSE, FALSE, FALSE, FALSE, TRUE),
     AccountStatus(TRUE, FALSE, FALSE, FALSE, TRUE),
     AccountStatus(FALSE, TRUE, TRUE, FALSE, TRUE),
     AccountStatus(FALSE, FALSE, FALSE, TRUE, TRUE),
     AccountStatus(FALSE, FALSE, FALSE, FALSE, FALSE),
     AccountStatus(TRUE, FALSE, FALSE, FALSE, FALSE)}

is_trading_allowed(status) ==
    /\ ~status.account_blocked
    /\ ~status.trading_blocked
    /\ ~status.transfers_blocked
    /\ ~status.trade_suspended_by_user
    /\ status.market_open

Reasons(status) ==
    (IF status.account_blocked THEN <<<<"account blocked">>>> ELSE <<>>)
    \o (IF status.trading_blocked THEN <<<<"trading blocked">>>> ELSE <<>>)
    \o (IF status.transfers_blocked THEN <<<<"transfers blocked">>>> ELSE <<>>)
    \o (IF status.trade_suspended_by_user THEN <<<<"suspended by user">>>> ELSE <<>>)
    \o (IF ~status.market_open THEN <<<<"market closed">>>> ELSE <<>>)

Unauthorized == Raise("APIException", <<"Unauthorized", " (status: 401)">>)

\* what GET /accounts/status can come back with
AccountStatusResults(expired) ==
    IF expired THEN {Unauthorized}
    ELSE {Return(s) : s \in AccountStatuses}
         \cup {Raise("APIException", <<"Request failed: ", "Connection closed">>)}

\* the (is_available, message) pair
check_trading_availability(is_open, status_result) ==
    IF ~is_open THEN [is_available |-> FALSE, message |-> MarketClosedMessage]
    ELSE IF IsRaise(status_result)
    THEN [is_available |-> FALSE,
          message |-> <<"Failed to check account status: ">> \o status_result.msg]
    ELSE IF ~is_trading_allowed(status_result.value)
    THEN [is_available |-> FALSE,
          message |-> <<"Trading not available: ">>
                      \o Join(Reasons(status_result.value), ", ")]
    ELSE [is_available |-> TRUE, message |-> <<"Trading is available">>]

\* the words "market" and "closed" inside str.lower() of a message piece
LowerWords(piece) ==
    CASE piece = "Market is closed. Opens in 17h 30m" -> {"market", "closed"}
      [] piece = "market closed" -> {"market", "closed"}
      [] piece = "Connection closed" -> {"closed"}
      [] OTHER -> {}

InLower(word, message) ==
    \E i \in 1..Len(message) : word \in LowerWords(message[i])

\* Step 1's raise when trading is not available
AvailabilityError(message) ==
    IF InLower("market", message) \/ InLower("closed", message)
    THEN Raise("MarketClosedException", message)
    ELSE Raise("AccountBlockedException", message)

\* ------------------------------------------------------------- _execute_trade: amounts
AssetQuotes ==
    {[bid_price |-> DecInt(b), ask_price |-> DecInt(a)] :
        b \in 0..MaxPrice, a \in 0..MaxPrice}

get_price_for_side(quote, side) ==
    IF side = "buy" THEN quote.ask_price ELSE quote.bid_price

\* Step 3, both sides alike: `if rwa_amount:` else usdc_amount / price
CalculateAmounts(rwa_amount, usdc_amount, price) ==
    IF AmountTruthy(rwa_amount)
    THEN Return([final_rwa |-> Quantize(Get(rwa_amount), RWA_DECIMALS),
                 final_usdc |-> Quantize(DecMul(Get(rwa_amount), price), USDC_DECIMALS)])
    ELSE IF IsNone(usdc_amount)
    THEN Raise("TypeError",
               <<"unsupported operand type(s) for /: 'NoneType' and 'decimal.Decimal'">>)
    ELSE IF DecIsZero(price)
    THEN IF DecIsZero(Get(usdc_amount))
         THEN Raise("InvalidOperation", <<"[<class 'decimal.DivisionUndefined'>]">>)
         ELSE Raise("DivisionByZero", <<"[<class 'decimal.DivisionByZero'>]">>)
    ELSE Return([final_rwa |-> Quantize(DecDiv(Get(usdc_amount), price), RWA_DECIMALS),
                 final_usdc |-> Quantize(Get(usdc_amount), USDC_DECIMALS)])

\* ------------------------------------------------------------- _execute_trade: the steps
ccaFrame ==
    <<pc, call, self_routing_strategy, tradeVars, events, router_in, cca_args, mm_pc,
      outcome, web3_async, mm_local, allowance, mm_txs, configVars, marketVars>>

ApiCall(endpoint) ==
    [endpoint |-> endpoint, auth_token |-> auth_token, expired |-> token_expired]

Transfer(token, amount, status) ==
    [token |-> token, amount |-> amount, tx_hash |-> TX_HASH, status |-> status]

\* Step 0: authenticate() when cross_chain_access_api.auth_token is not set
Step0EnsureAuthentication ==
    /\ cca_pc = "ensure_auth"
    /\ IF auth_token
       THEN /\ CcaGoto("availability")
            /\ UNCHANGED <<auth_token, token_expired>>
       ELSE \/ /\ auth_token' = TRUE
               /\ token_expired' = FALSE
               /\ CcaGoto("availability")
            \/ /\ CcaFail("AuthenticationError", <<"Authentication failed">>)
               /\ UNCHANGED <<auth_token, token_expired>>
    /\ UNCHANGED <<cca_local, transfers, api_calls, ccaFrame>>

\* Step 1: check_trading_availability() and the choice of the exception
Step1CheckTradingAvailability ==
    /\ cca_pc = "availability"
    /\ \E is_open \in BOOLEAN, status_result \in AccountStatusResults(token_expired) :
        LET r == check_trading_availability(is_open, status_result)
        IN /\ api_calls' = IF is_open
                           THEN Append(api_calls, ApiCall("get_account_status"))
                           ELSE api_calls
           /\ cca_local' = [cca_local EXCEPT !.is_available = Some(r.is_available),
                                             !.message = Some(r.message)]
           /\ IF r.is_available
              THEN CcaGoto("quote")
              ELSE /\ exec_result' = Some(AvailabilityError(r.message))
                   /\ cca_pc' = "finished"
    /\ UNCHANGED <<auth_token, token_expired, transfers, ccaFrame>>

\* Steps 2 and 3: the quote, the price for the side, the two amounts
Step2GetQuoteAndAmounts ==
    /\ cca_pc = "quote"
    /\ \/ /\ CcaFail("QuoteUnavailableException",
                     <<"Failed to get quote for ", "AAPL", ": ", "timeout">>)
          /\ UNCHANGED cca_local
       \/ \E quote \in AssetQuotes :
            LET price == get_price_for_side(quote, Get(cca_args).side)
                amounts == CalculateAmounts(Get(cca_args).rwa_amount,
                                            Get(cca_args).usdc_amount, price)
            IN IF IsRaise(amounts)
               THEN /\ exec_result' = Some(amounts)
                    /\ cca_pc' = "finished"
                    /\ cca_local' = [cca_local EXCEPT !.price = Some(price)]
               ELSE /\ CcaGoto("funds")
                    /\ cca_local' = [cca_local EXCEPT
                            !.price = Some(price),
                            !.final_rwa = Some(amounts.value.final_rwa),
                            !.final_usdc = Some(amounts.value.final_usdc)]
    /\ UNCHANGED <<auth_token, token_expired, transfers, api_calls, ccaFrame>>

InsufficientFunds(need, have) ==
    Raise("InsufficientFundsException", <<"Insufficient funds: need ", need, ", have ", have>>)

\* Step 4: buying power (buy) or the wallet's token balance (sell)
Step4CheckFunds ==
    /\ cca_pc = "funds"
    /\ IF Get(cca_args).side = "buy"
       THEN /\ api_calls' = Append(api_calls, ApiCall("get_account_funds"))
            /\ IF token_expired
               THEN /\ exec_result' = Some(Unauthorized)
                    /\ cca_pc' = "finished"
                    /\ UNCHANGED cca_local
               ELSE \E buying_power \in 0..MaxFunds :
                      /\ cca_local' = [cca_local EXCEPT
                              !.funds = Some(DecInt(buying_power)),
                              !.transfer_token = Some("USDC"),
                              !.transfer_amount = cca_local.final_usdc]
                      /\ IF DecLe(Get(cca_local.final_usdc), DecInt(buying_power))
                         THEN CcaGoto("transfer")
                         ELSE /\ exec_result' = Some(InsufficientFunds(
                                      Get(cca_local.final_usdc), DecInt(buying_power)))
                              /\ cca_pc' = "finished"
       ELSE /\ UNCHANGED api_calls
            /\ IF web3_async
               THEN \* rwa_balance is a coroutine object; `rwa_balance < final_rwa`
                    /\ cca_local' = [cca_local EXCEPT
                            !.coroutines = @ \cup {"rwa_balance"}]
                    /\ CcaFail("TypeError",
                          <<"'<' not supported between instances of 'coroutine' and 'decimal.Decimal'">>)
               ELSE \E rwa_balance \in 0..MaxFunds :
                      /\ cca_local' = [cca_local EXCEPT
                              !.funds = Some(DecInt(rwa_balance)),
                              !.transfer_token = Some(Get(cca_args).rwa_token_address),
                              !.transfer_amount = cca_local.final_rwa]
                      /\ IF DecLt(DecInt(rwa_balance), Get(cca_local.final_rwa))
                         THEN /\ exec_result' = Some(InsufficientFunds(
                                      Get(cca_local.final_rwa), DecInt(rwa_balance)))
                              /\ cca_pc' = "finished"
                         ELSE CcaGoto("transfer")
    /\ UNCHANGED <<auth_token, token_expired, transfers, ccaFrame>>

\* Web3Helper.transfer_token run to its end: the balance check, then
\* _sign_and_send_transaction
TransferOutcomes == {"success", "reverted", "timeout", "not_sent", "low_balance"}

TransferError(status) ==
    CASE status = "reverted" ->
            Raise("TransactionFailedException", <<"Transaction failed: ", TX_HASH,
                                                  "Transaction reverted">>)
      [] status = "timeout" ->
            Raise("TransactionFailedException", <<"Transaction failed: ", "timeout">>)
      [] status = "not_sent" ->
            Raise("TransactionFailedException", <<"Transaction failed: ", "nonce too low">>)
      [] status = "low_balance" ->
            Raise("InsufficientBalanceException", <<"Insufficient balance">>)

\* Steps 5 and 6: the topup address, then transfer_token(...) without `await`
Step6TransferToken ==
    /\ cca_pc = "transfer"
    /\ \/ \* _load_topup_address(): the remote configuration cannot be loaded
          /\ CcaFail("Exception", <<"Failed to load configuration from remote: ",
                                    "timeout">>)
          /\ UNCHANGED <<cca_local, transfers>>
       \/ IF web3_async
          THEN /\ cca_local' = [cca_local EXCEPT !.coroutines = @ \cup {"tx_hash"}]
               /\ CcaGoto("order")
               /\ UNCHANGED transfers
          ELSE \E status \in TransferOutcomes :
                 /\ transfers' =
                        IF status \in {"success", "reverted", "timeout"}
                        THEN Append(transfers,
                                    Transfer(Get(cca_local.transfer_token),
                                             Get(cca_local.transfer_amount), status))
                        ELSE transfers
                 /\ IF status = "success"
                    THEN /\ cca_local' = [cca_local EXCEPT !.tx_hash = Some(TX_HASH)]
                         /\ CcaGoto("order")
                    ELSE /\ exec_result' = Some(TransferError(status))
                         /\ cca_pc' = "finished"
                         /\ UNCHANGED cca_local
    /\ UNCHANGED <<auth_token, token_expired, api_calls, ccaFrame>>

\* CrossChainAccessAPIClient.create_order's parameters, none with a default
CreateOrderParameters ==
    {"wallet", "tx_hash", "asset_address", "asset_symbol", "side", "price", "qty",
     "notional", "chain_id", "target_chain_id", "user_email"}

\* the keywords _execute_trade passes
CreateOrderKeywords ==
    {"wallet", "tx_hash", "asset_address", "asset_symbol", "side", "price", "qty",
     "notional", "chain_id", "user_email"}

\* Step 7: create_order(...), then the TradeResult
Step7CreateOrder ==
    /\ cca_pc = "order"
    /\ LET called == [cca_local EXCEPT !.order_called = TRUE,
                                       !.create_order_tx_hash = cca_local.tx_hash]
       IN IF CreateOrderParameters \subseteq CreateOrderKeywords
          THEN /\ api_calls' = Append(api_calls, ApiCall("create_order"))
               /\ \/ /\ cca_local' = [called EXCEPT !.order_id = Some("order-1")]
                     /\ exec_result' = Some(Return(TradeResult(CCA)))
                     /\ cca_pc' = "finished"
                  \/ /\ cca_local' = called
                     /\ CcaFail("OrderFailedException",
                            <<"Order creation failed: ", "rejected", " (status: 400)">>)
          ELSE /\ cca_local' = called
               /\ CcaFail("TypeError",
                     <<"create_order() missing 1 required positional argument: 'target_chain_id'">>)
               /\ UNCHANGED api_calls
    /\ UNCHANGED <<auth_token, token_expired, transfers, ccaFrame>>

\* the access token's lifetime runs out (AuthTokens.is_expired becomes true)
TokenExpires ==
    /\ auth_token
    /\ ~token_expired
    /\ token_expired' = TRUE
    /\ UNCHANGED <<cca_pc, cca_args, auth_token, exec_result, cca_local, transfers,
                   api_calls, pc, call, self_routing_strategy, tradeVars, events,
                   router_in, mm_pc, outcome, web3_async, mm_local, allowance, mm_txs,
                   configVars, marketVars>>

\* either kind of Web3Helper
ExecInit ==
    /\ TradingInit
    /\ web3_async \in BOOLEAN
    /\ ExecVarsInit
    /\ ConfigVarsInit
    /\ MarketVarsInit

\* ------------------------------------------------------------- Market Maker, step by step
MaxPaid == 2
MaxAllowance == 2

\* a Decimal as coefficient and exponent: n * 10^e
Sci(n, e) == [n |-> n, e |-> e]
\* x * Decimal(10 ** k), or x / Decimal(10 ** -k)
SciShift(x, k) == Sci(x.n, x.e + k)
\* a >= b, for coefficients of less than nine digits
SciGe(a, b) ==
    IF b.n = 0 THEN TRUE
    ELSE IF a.n = 0 THEN FALSE
    ELSE IF a.e >= b.e
    THEN a.e - b.e >= 9 \/ a.n * 10^(a.e - b.e) >= b.n
    ELSE b.e - a.e < 9 /\ a.n >= b.n * 10^(b.e - a.e)
\* int(x): the fraction is cut off
SciInt(x) ==
    IF x.e >= 0 THEN x.n * 10^x.e
    ELSE IF -x.e >= 9 THEN 0
    ELSE x.n \div 10^(-x.e)

\* swarm.shared.constants.TOKEN_DECIMALS, keyed by token symbol
TOKEN_DECIMALS ==
    [t \in {"USDC", "USDT", "DAI", "WETH", "WMATIC"} |->
        IF t \in {"USDC", "USDT"} THEN 6 ELSE 18]

\* decimals() of the token contract, what Web3Helper._get_token_decimals reads
ChainDecimals(token) == TOKEN_DECIMALS[token]

\* Network.value as a dictionary key
NetworkValues == {"1", "137", "8453", "56"}

\* TOKEN_DECIMALS.get(self.network.value, {}).get(withdrawal_token.lower(), 18):
\* the first get looks a chain id up among token symbols
TakeTokenDecimals(network_value, withdrawal_token) ==
    IF network_value \in DOMAIN TOKEN_DECIMALS
    THEN TOKEN_DECIMALS[network_value]
    ELSE 18

FIXED_PRICING == "FixedPricing"
DYNAMIC_PRICING == "DynamicPricing"

\* depositToWithdrawalRate as the API may send it: absent, empty, zero, a rate
RateStrings == {None, Some(<<>>), Some(<<"0">>), Some(<<"1050000">>)}

\* int(Decimal(rate))
RateWei(rate) == IF rate = <<"0">> THEN 0 ELSE 1050000

SelectedOffers ==
    [id : {"7"}, withdrawal_token : WithdrawalTokens,
     withdrawal_amount_paid : 1..MaxPaid,
     pricing_type : {FIXED_PRICING, DYNAMIC_PRICING},
     deposit_to_withdrawal_rate : RateStrings]

mmFrame ==
    <<pc, call, self_routing_strategy, tradeVars, events, router_in, cca_pc, cca_args,
      auth_token, outcome, web3_async, token_expired, cca_local, transfers, api_calls,
      configVars, marketVars>>

MmFail(type, msg) ==
    /\ exec_result' = Some(Raise(type, msg))
    /\ mm_pc' = "finished"

MmTx(function, amount_wei, max_rate_wei, status) ==
    [function |-> function, amount_wei |-> amount_wei, max_rate_wei |-> max_rate_wei,
     status |-> status]

TakeFunction(offer) ==
    IF offer.pricing_type = DYNAMIC_PRICING THEN "takeOfferDynamic" ELSE "takeOfferFixed"

\* `if not selected_offer.deposit_to_withdrawal_rate`
RateMissing(offer) ==
    ~Truthy(offer.deposit_to_withdrawal_rate)

\* trade() Step 1: the best offer, and for a dynamic one its rate
MmGetBestOffers ==
    /\ mm_pc = "trading"
    /\ \/ /\ MmFail("NoOffersAvailableException",
                    <<"No suitable offers found for this trade">>)
          /\ UNCHANGED mm_local
       \/ /\ MmFail("MarketMakerWeb3Exception", <<"Trade execution failed: ", "timeout">>)
          /\ UNCHANGED mm_local
       \/ \E offer \in SelectedOffers :
            /\ mm_local' = [mm_local EXCEPT !.selected_offer = Some(offer)]
            /\ IF offer.pricing_type = DYNAMIC_PRICING /\ RateMissing(offer)
               THEN MmFail("MarketMakerWeb3Exception",
                           <<"Dynamic offer ", offer.id, " missing depositToWithdrawalRate">>)
               ELSE /\ mm_pc' = "take"
                    /\ UNCHANGED exec_result
    /\ UNCHANGED <<allowance, mm_txs, mmFrame>>

\* take_offer_*: _ensure_contract_loaded, the amounts, _approve_token_if_needed
MmApproveIfNeeded ==
    /\ mm_pc = "take"
    /\ LET offer == Get(mm_local.selected_offer)
           token == offer.withdrawal_token
           operation == IF offer.pricing_type = DYNAMIC_PRICING
                        THEN "Failed to take dynamic offer: "
                        ELSE "Failed to take fixed offer: "
           max_rate_wei == IF offer.pricing_type = DYNAMIC_PRICING
                           THEN Some(RateWei(Get(offer.deposit_to_withdrawal_rate)))
                           ELSE None
       IN \/ \* get_market_maker_manager_address raises
             /\ MmFail("MarketMakerWeb3Exception",
                       <<operation, "Market Maker Manager address not available">>)
             /\ UNCHANGED <<mm_local, allowance, mm_txs>>
          \/ \E network_value \in NetworkValues :
              LET token_decimals == TakeTokenDecimals(network_value, token)
                  normalized_amount == SciShift(Sci(offer.withdrawal_amount_paid, 0),
                                                -token_decimals)
                  locals == [mm_local EXCEPT !.max_rate_wei = max_rate_wei,
                                             !.token_decimals = Some(token_decimals),
                                             !.normalized_amount = Some(normalized_amount)]
              IN IF web3_async
                 THEN \* current_allowance is a coroutine object; `current_allowance >= amount`
                      /\ mm_local' = [locals EXCEPT
                              !.coroutines = @ \cup {"current_allowance"}]
                      /\ MmFail("MarketMakerWeb3Exception",
                            <<operation,
                              "'>=' not supported between instances of 'coroutine' and 'decimal.Decimal'">>)
                      /\ UNCHANGED <<allowance, mm_txs>>
                 ELSE LET current_allowance == SciShift(Sci(allowance[token], 0),
                                                        -ChainDecimals(token))
                          amount_wei == SciInt(SciShift(normalized_amount,
                                                        ChainDecimals(token)))
                      IN /\ mm_local' = [locals EXCEPT
                                 !.allowance_wei = Some(allowance[token]),
                                 !.current_allowance = Some(current_allowance)]
                         /\ IF SciGe(current_allowance, normalized_amount)
                            THEN /\ mm_pc' = "execute"
                                 /\ UNCHANGED <<exec_result, allowance, mm_txs>>
                            ELSE \/ /\ mm_txs' = Append(mm_txs,
                                            MmTx("approve", amount_wei, 0, "success"))
                                    /\ allowance' = [allowance EXCEPT ![token] = amount_wei]
                                    /\ mm_pc' = "execute"
                                    /\ UNCHANGED exec_result
                                 \/ /\ mm_txs' = Append(mm_txs,
                                            MmTx("approve", amount_wei, 0, "reverted"))
                                    /\ MmFail("MarketMakerWeb3Exception",
                                          <<"Trade execution failed: ",
                                            "Transaction failed: ", TX_HASH,
                                            "Transaction reverted">>)
                                    /\ UNCHANGED allowance
    /\ UNCHANGED mmFrame

\* variant: a receipt is taken for a success whatever its status
TakeConfirmed_AnyReceipt(status) == status \in {"success", "reverted"}

\* `receipt["status"] != 1` raises
TakeConfirmed(status) == status = "success"

\* what the manager contract reverts with when estimate_gas simulates the take
RevertReasons ==
    {<<"execution reverted: ", "offer not found">>,
     <<"execution reverted: ", "offer inactive">>,
     <<"execution reverted: ", "insufficient balance">>,
     <<"execution reverted: ", "offer ", "expired">>,
     <<"execution reverted">>}

\* `phrase in error_msg`, on the lower-cased message
ErrorMsgHas(error_msg, phrase) == Contains(error_msg, <<phrase>>)

_handle_contract_error(error, operation) ==
    IF ErrorMsgHas(error.msg, "offer not found") \/ ErrorMsgHas(error.msg, "invalid offer")
    THEN Raise("OfferNotFoundError", <<"Offer not found during ", operation>>)
    ELSE IF ErrorMsgHas(error.msg, "offer inactive") \/ ErrorMsgHas(error.msg, "not active")
    THEN Raise("OfferInactiveError", <<"Offer is inactive for ", operation>>)
    ELSE IF ErrorMsgHas(error.msg, "insufficient balance")
    THEN Raise("InsufficientOfferBalanceError", <<"Insufficient balance for ", operation>>)
    ELSE IF ErrorMsgHas(error.msg, "expired")
    THEN Raise("OfferExpiredError", <<"Offer expired for ", operation>>)
    ELSE IF ErrorMsgHas(error.msg, "unauthorized") \/ ErrorMsgHas(error.msg, "not maker")
    THEN Raise("UnauthorizedError", <<"Unauthorized for ", operation>>)
    ELSE Raise("MarketMakerWeb3Exception",
               <<"Contract error during ", operation, ": ">> \o error.msg)

\* _execute_contract_function's `except Exception as e`: whatever was raised
\* inside comes out as a TransactionFailedException
ExecuteContractFunctionRaises(function_name, error) ==
    Raise("TransactionFailedException",
          <<"Failed to execute ", function_name, ": ">> \o error.msg)

Web3Exceptions == {"Web3Exception", "TransactionFailedException"}

TakeOperation(offer) ==
    IF offer.pricing_type = DYNAMIC_PRICING THEN "take dynamic offer" ELSE "take fixed offer"

\* the except clauses of take_offer_fixed / take_offer_dynamic, in order
TakeOfferRaises(raised, operation) ==
    IF raised.type = "ContractLogicError" THEN _handle_contract_error(raised, operation)
    ELSE IF raised.type \in Web3Exceptions THEN raised
    ELSE Raise("MarketMakerWeb3Exception",
               <<"Failed to ", operation, ": ">> \o raised.msg)

MarketMakerWeb3Exceptions ==
    {"MarketMakerWeb3Exception", "OfferNotFoundError", "OfferInactiveError",
     "InsufficientOfferBalanceError", "OfferExpiredError", "UnauthorizedError"}

\* the except clauses of MarketMakerClient.trade
TradeRaises(raised) ==
    IF raised.type \in MarketMakerWeb3Exceptions \cup {"NoOffersAvailableException"}
    THEN raised
    ELSE Raise("MarketMakerWeb3Exception", <<"Trade execution failed: ">> \o raised.msg)

\* _execute_contract_function(takeOffer...), then trade()'s TradeResult
MmExecuteTake ==
    /\ mm_pc = "execute"
    /\ LET offer == Get(mm_local.selected_offer)
           token == offer.withdrawal_token
           amount_wei == offer.withdrawal_amount_paid
           max_rate_wei == IF IsNone(mm_local.max_rate_wei) THEN 0
                           ELSE Get(mm_local.max_rate_wei)
       IN \/ \* estimate_gas raises ContractLogicError: nothing is broadcast
             \E reason \in RevertReasons :
                LET error == Raise("ContractLogicError", reason)
                    raised == TakeOfferRaises(
                                  ExecuteContractFunctionRaises(TakeFunction(offer), error),
                                  TakeOperation(offer))
                IN /\ mm_local' = [mm_local EXCEPT
                           !.contract_error = Some(error),
                           !.take_offer_raised = Some(raised)]
                   /\ exec_result' = Some(TradeRaises(raised))
                   /\ mm_pc' = "finished"
                   /\ UNCHANGED <<allowance, mm_txs>>
          \/ \E status \in {"success", "reverted"} :
                /\ UNCHANGED mm_local
                \* the manager contract pulls the payment with transferFrom
                /\ status = "success" => allowance[token] >= amount_wei
                /\ mm_txs' = Append(mm_txs,
                        MmTx(TakeFunction(offer), amount_wei, max_rate_wei, status))
                /\ allowance' = IF status = "success"
                                THEN [allowance EXCEPT ![token] = @ - amount_wei]
                                ELSE allowance
                /\ IF TakeConfirmed(status)
                   THEN /\ exec_result' = Some(Return(TradeResult(MM)))
                        /\ mm_pc' = "finished"
                   ELSE MmFail("MarketMakerWeb3Exception",
                               <<"Trade execution failed: ", "Failed to execute ",
                                 TakeFunction(offer), ": ", "Transaction failed: ",
                                 TX_HASH>>)
    /\ UNCHANGED mmFrame

\* MarketMakerClient.trade called by the user
MmTradeCall ==
    /\ pc = "idle"
    /\ call' = "mm_trade"
    /\ pc' = "mm_direct"
    /\ mm_pc' = "trading"
    /\ UNCHANGED <<self_routing_strategy, tradeVars, events, router_in, ccaVars, outcome,
                   execVars, configVars, marketVars>>

MmDirectFinish ==
    /\ pc = "mm_direct"
    /\ mm_pc = "finished"
    /\ outcome' = exec_result
    /\ exec_result' = None
    /\ mm_pc' = "idle"
    /\ pc' = "done"
    /\ UNCHANGED <<call, self_routing_strategy, tradeVars, events, router_in, cca_pc,
                   cca_args, auth_token, execVars, configVars, marketVars>>

\* the wallet's owner approves or revokes outside the SDK
AllowanceChanged ==
    /\ pc = "idle"
    /\ \E token \in WithdrawalTokens, a \in 0..MaxAllowance :
        /\ allowance[token] # a
        /\ allowance' = [allowance EXCEPT ![token] = a]
    /\ UNCHANGED <<pc, call, self_routing_strategy, tradeVars, events, router_in, ccaVars,
                   mm_pc, outcome, web3_async, token_expired, cca_local, transfers,
                   api_calls, mm_local, mm_txs, configVars, marketVars>>

\* ------------------------------------------------------------- the executors, called directly
\* TradingClient._execute_cross_chain_access_trade as trade() calls it, after its
\* amount check: rwa_token_address=to_token, rwa_amount=to_amount,
\* usdc_amount=from_amount; `if usdc_amount:` buys, anything else sells
ExecuteCrossChainAccessTradeCall ==
    /\ pc = "idle"
    /\ call' = "cca_trade"
    /\ pc' = "cca_direct"
    /\ \E from_amount \in AmountArgs, to_amount \in AmountArgs :
        /\ ~AmountsInvalid(from_amount, to_amount)
        /\ IF AmountTruthy(from_amount)
           THEN CcaEnter("buy", TO_TOKEN, None, from_amount)
           ELSE CcaEnter("sell", TO_TOKEN, to_amount, None)
    /\ UNCHANGED <<self_routing_strategy, tradeVars, events, router_in, auth_token, mm_pc,
                   outcome, execVars, configVars, marketVars>>

\* CrossChainAccessClient.buy / sell and MarketMakerClient.trade, step by step
ExecNext ==
    \/ CcaBuyCall
    \/ CcaSellCall
    \/ ExecuteCrossChainAccessTradeCall
    \/ Step0EnsureAuthentication
    \/ Step1CheckTradingAvailability
    \/ Step2GetQuoteAndAmounts
    \/ Step4CheckFunds
    \/ Step6TransferToken
    \/ Step7CreateOrder
    \/ CcaDirectFinish
    \/ MmTradeCall
    \/ MmGetBestOffers
    \/ MmApproveIfNeeded
    \/ MmExecuteTake
    \/ MmDirectFinish
    \/ Finish
    \/ TokenExpires
    \/ AllowanceChanged

ExecSpec == ExecInit /\ [][ExecNext]_vars

\* ------------------------------------------------------------- Step 3 on its own
\* amounts and prices with decimal places: a / 10^k
MaxCoefficient == 2
MaxExponent == 3
MaxQuotePrice == 3

DecimalAmounts == {Dec(a, 10^k) : a \in 1..MaxCoefficient, k \in 0..MaxExponent}
QuotePrices == {DecInt(p) : p \in 1..MaxQuotePrice}

\* the arguments buy() and sell() let through: exactly one amount
OneSidedArgs ==
    {[side |-> side, rwa_token_address |-> "RWA", rwa_amount |-> Some(a),
      usdc_amount |-> None] :
        side \in {"buy", "sell"}, a \in DecimalAmounts}
    \cup {[side |-> side, rwa_token_address |-> "RWA", rwa_amount |-> None,
           usdc_amount |-> Some(a)] :
        side \in {"buy", "sell"}, a \in DecimalAmounts}

\* _execute_trade after step 2: the arguments and the quote's price are at hand
AmountInit ==
    /\ pc = "cca_direct"
    /\ \E a \in OneSidedArgs :
        /\ cca_args = Some(a)
        /\ call = IF a.side = "buy" THEN "cca_buy" ELSE "cca_sell"
    /\ \E price \in QuotePrices : cca_local = [CcaLocals EXCEPT !.price = Some(price)]
    /\ cca_pc = "amounts"
    /\ auth_token = TRUE
    /\ self_routing_strategy = BEST_PRICE
    /\ args = None
    /\ strategy = None
    /\ is_buy = FALSE
    /\ market_maker_option = None
    /\ cross_chain_access_option = None
    /\ mm_quote_result = None
    /\ cca_quote_result = None
    /\ selected = None
    /\ phase = "none"
    /\ primary_error = None
    /\ executions = <<>>
    /\ events = <<>>
    /\ router_in = None
    /\ mm_pc = "idle"
    /\ exec_result = None
    /\ outcome = None
    /\ web3_async = TRUE
    /\ token_expired = FALSE
    /\ transfers = <<>>
    /\ api_calls = <<>>
    /\ mm_local = MmLocals
    /\ allowance = [t \in WithdrawalTokens |-> 0]
    /\ mm_txs = <<>>
    /\ ConfigVarsInit
    /\ MarketVarsInit

\* Step 3: the two amounts from the price, each rounded to its asset's places
Step3CalculateAmounts ==
    /\ cca_pc = "amounts"
    /\ LET amounts == CalculateAmounts(Get(cca_args).rwa_amount,
                                       Get(cca_args).usdc_amount,
                                       Get(cca_local.price))
       IN IF IsRaise(amounts)
          THEN /\ exec_result' = Some(amounts)
               /\ cca_pc' = "finished"
               /\ UNCHANGED cca_local
          ELSE /\ CcaGoto("funds")
               /\ cca_local' = [cca_local EXCEPT
                       !.final_rwa = Some(amounts.value.final_rwa),
                       !.final_usdc = Some(amounts.value.final_usdc)]
    /\ UNCHANGED <<auth_token, token_expired, transfers, api_calls, ccaFrame>>

AmountNext == Step3CalculateAmounts

AmountSpec == AmountInit /\ [][AmountNext]_vars

\* ------------------------------------------------------------- market_hours.py
\* datetime.time(hour, minute), in seconds since midnight
Time(hour, minute) == hour * 3600 + minute * 60

MARKET_OPEN_UTC == Time(14, 30)
MARKET_CLOSE_UTC == Time(21, 0)

SecondsPerDay == Time(24, 0)

\* a datetime: weekday() (Monday = 0), time of day in seconds and microseconds,
\* tzinfo as None (naive) or Some(utcoffset in seconds)
Datetime(weekday, second, microsecond, tzinfo) ==
    [weekday |-> weekday, second |-> second, microsecond |-> microsecond,
     tzinfo |-> tzinfo]

\* pytz.UTC.localize(dt) for a naive dt, dt.astimezone(pytz.UTC) for an aware one
ToUtc(dt) ==
    IF IsNone(dt.tzinfo)
    THEN [dt EXCEPT !.tzinfo = Some(0)]
    ELSE LET week == 7 * SecondsPerDay
             t == (dt.weekday * SecondsPerDay + dt.second - Get(dt.tzinfo) + week) % week
         IN Datetime(t \div SecondsPerDay, t % SecondsPerDay, dt.microsecond, Some(0))

\* a <= b for datetime.time values (second, microsecond)
TimeLe(a, b) ==
    a.second < b.second \/ (a.second = b.second /\ a.microsecond <= b.microsecond)

Midnight(second) == [second |-> second, microsecond |-> 0]

\* variant: the closing instant itself is closed
is_market_open_CloseExclusive(dt) ==
    LET utc == ToUtc(dt)
    IN IF utc.weekday >= 5 THEN FALSE
       ELSE /\ TimeLe(Midnight(MARKET_OPEN_UTC), utc)
            /\ ~TimeLe(Midnight(MARKET_CLOSE_UTC), utc)

is_market_open(dt) ==
    LET utc == ToUtc(dt)
    IN IF utc.weekday >= 5 THEN FALSE
       ELSE /\ TimeLe(Midnight(MARKET_OPEN_UTC), utc)
            /\ TimeLe(utc, Midnight(MARKET_CLOSE_UTC))

\* seconds around the opening and the closing instant that the callers try
MaxSkew == 1

\* utcoffset of the caller's zone: naive, UTC, New York (EST), Tokyo
Zones == {None, Some(0), Some(0 - Time(5, 0)), Some(Time(9, 0))}

Instants ==
    {Datetime(weekday, second, microsecond, Some(0)) :
        weekday \in 0..6,
        second \in {0, SecondsPerDay - 1}
            \cup {MARKET_OPEN_UTC + k - MaxSkew : k \in 0..(2 * MaxSkew)}
            \cup {MARKET_CLOSE_UTC + k - MaxSkew : k \in 0..(2 * MaxSkew)},
        microsecond \in {0, 1}}

\* the wall clock of a zone at a UTC instant
InZone(utc, tzinfo) ==
    IF IsNone(tzinfo)
    THEN [utc EXCEPT !.tzinfo = None]
    ELSE LET week == 7 * SecondsPerDay
             t == (utc.weekday * SecondsPerDay + utc.second + Get(tzinfo) + week) % week
         IN Datetime(t \div SecondsPerDay, t % SecondsPerDay, utc.microsecond, tzinfo)

\* MarketHours.is_market_open(dt), called with some zone's wall clock
IsMarketOpenCall ==
    /\ IsNone(mh_dt)
    /\ \E utc \in Instants, tzinfo \in Zones :
        /\ mh_utc' = Some(utc)
        /\ mh_dt' = Some(InZone(utc, tzinfo))
        /\ mh_is_open' = Some(is_market_open(InZone(utc, tzinfo)))
    /\ UNCHANGED <<pc, call, self_routing_strategy, tradeVars, events, router_in,
                   ccaVars, mm_pc, outcome, execVars, configVars>>

MarketNext == IsMarketOpenCall

MarketSpec == Init /\ [][MarketNext]_vars

\* ------------------------------------------------------------- remote configuration
MaxVersion == 2

\* _LEGACY_MARKET_MAKER_MANAGER_ADDRESSES' keys
LegacyChains == {1, 137, 8453, 56}
ChainIds == LegacyChains \cup {10}

LegacyAddress(chain_id) == [table |-> "legacy", chain_id |-> chain_id]
RemoteAddress(chain_id) == [table |-> "remote", chain_id |-> chain_id]

\* RemoteConfigFetcher(): cache is the version of the configuration held, 0 for {}
NewFetcher == [cache |-> 0, last_fetch |-> "none"]

nonConfigVars ==
    <<pc, call, self_routing_strategy, tradeVars, events, router_in, ccaVars, mm_pc,
      outcome, execVars, marketVars>>

ConfigFunctions ==
    {"get_config_fetcher", "libs.get_market_maker_manager_address",
     "swarm.get_market_maker_manager_address"}

\* a call in progress: waited tells that the lock was held when it was made,
\* refreshed the version a fetch brought while it waited, fetched that it started a
\* fetch itself, fetch_failed that its fetch failed
ConfigCall(fn, chain_id, waited) ==
    [fn |-> fn, chain_id |-> chain_id, waited |-> waited, refreshed |-> None,
     fetched |-> FALSE, fetch_failed |-> FALSE, received |-> "nothing"]

\* what `return _prod_fetcher` hands over: the registered singleton, the singleton
\* while close_config_fetchers is closing its session, or None
Received ==
    IF IsNone(_prod_fetcher) THEN "none"
    ELSE IF close_pc = "closing" THEN "closing"
    ELSE "singleton"

\* variant: every call fetches
NeedsRefresh_Always(fetcher) == TRUE

\* _maybe_refresh: `not self.last_fetch`, or time_since_fetch >= refresh_interval
NeedsRefresh(fetcher) == fetcher.last_fetch \in {"none", "stale"}

\* RemoteConfigFetcher.get_market_maker_manager_address
FetcherAddress(fetcher, chain_id) ==
    IF fetcher.cache = 0
    THEN Raise("ValueError", <<"Configuration not loaded. Call initialize() first.">>)
    ELSE IF chain_id \notin LegacyChains
    THEN Raise("ValueError", <<"Market Maker Manager address not found for chain ID ">>)
    ELSE Return(RemoteAddress(chain_id))

\* swarm/market_maker_sdk/market_maker_web3/constants.py
SwarmManagerAddress(fetched, chain_id) ==
    IF IsRaise(fetched) THEN fetched
    ELSE IF DOMAIN fetched.value = {}
    THEN Raise("AttributeError",
               <<"'NoneType' object has no attribute 'get_market_maker_manager_address'">>)
    ELSE FetcherAddress(fetched.value, chain_id)

\* libs/market_maker_sdk/market_maker_web3/constants.py: `except Exception`
LibsManagerAddress(fetched, chain_id) ==
    LET r == SwarmManagerAddress(fetched, chain_id)
    IN IF IsReturn(r) THEN r
       ELSE IF chain_id \notin LegacyChains
       THEN Raise("ValueError", <<"Market Maker Manager address not found for chain ID ">>)
       ELSE Return(LegacyAddress(chain_id))

\* what the caller of get_config_fetcher makes of what it came back with
ConfigResult(c_call, fetched) ==
    CASE c_call.fn = "get_config_fetcher" -> fetched
      [] c_call.fn = "swarm.get_market_maker_manager_address" ->
            SwarmManagerAddress(fetched, c_call.chain_id)
      [] c_call.fn = "libs.get_market_maker_manager_address" ->
            LibsManagerAddress(fetched, c_call.chain_id)

\* `async with _fetcher_lock:` entered by c, up to the first await that suspends
EnterLock(c, c_call) ==
    LET created == IsNone(_prod_fetcher)
        fetcher == IF created THEN NewFetcher ELSE Get(_prod_fetcher)
    IN /\ _prod_fetcher' = Some(fetcher)
       /\ IF (created \/ NeedsRefresh(fetcher)) /\ close_pc # "closing"
          THEN /\ _fetcher_lock' = Some(c)
               /\ fetch_log' = Append(fetch_log, c)
               /\ cfg_pc' = [cfg_pc EXCEPT ![c] = IF created THEN "initialize" ELSE "refresh"]
               /\ cfg_call' = [cfg_call EXCEPT ![c] = Some([c_call EXCEPT !.fetched = TRUE])]
               /\ UNCHANGED cfg_result
          ELSE \* no fetch is due, or the session is closed and the request
               \* raises at once, which _fetch_config swallows
               /\ _fetcher_lock' = None
               /\ cfg_pc' = [cfg_pc EXCEPT ![c] = "done"]
               /\ cfg_call' = [cfg_call EXCEPT ![c] =
                        Some([c_call EXCEPT !.received = Received,
                                            !.fetch_failed = NeedsRefresh(fetcher)])]
               /\ cfg_result' = [cfg_result EXCEPT
                        ![c] = Some(ConfigResult(c_call, Return(fetcher)))]
               /\ UNCHANGED fetch_log

\* a coroutine calls get_config_fetcher, directly or for the manager address
GetConfigFetcherCall ==
    /\ \E c \in Coroutines, fn \in ConfigFunctions, chain_id \in ChainIds :
        /\ cfg_pc[c] = "idle"
        /\ fn = "get_config_fetcher" => chain_id = 1
        /\ IF IsNone(_fetcher_lock)
           THEN EnterLock(c, ConfigCall(fn, chain_id, FALSE))
           ELSE /\ cfg_pc' = [cfg_pc EXCEPT ![c] = "waiting"]
                /\ cfg_call' = [cfg_call EXCEPT ![c] = Some(ConfigCall(fn, chain_id, TRUE))]
                /\ UNCHANGED <<_prod_fetcher, _fetcher_lock, cfg_result, fetch_log>>
    /\ UNCHANGED <<close_pc, nonConfigVars>>

\* the lock was released and a waiting coroutine gets it
GetConfigFetcherAcquire ==
    /\ IsNone(_fetcher_lock)
    /\ \E c \in Coroutines :
        /\ cfg_pc[c] = "waiting"
        /\ EnterLock(c, Get(cfg_call[c]))
    /\ UNCHANGED <<close_pc, nonConfigVars>>

\* _fetch_config came back: initialize() or _maybe_refresh() ends, the lock is released
FetchConfigDone ==
    /\ \E c \in Coroutines, ok \in BOOLEAN :
        /\ cfg_pc[c] \in {"initialize", "refresh"}
        /\ IF IsNone(_prod_fetcher)
           THEN \* close_config_fetchers has reset the global: the fetch ends on an
                \* object nobody holds, and `return _prod_fetcher` gives None
                LET fetched == IF cfg_pc[c] = "initialize" /\ ~ok
                               THEN Raise("Exception",
                                          <<"Failed to load configuration from remote: ">>)
                               ELSE Return(None)
                    c_call == [Get(cfg_call[c]) EXCEPT !.fetch_failed = ~ok,
                                                      !.received = "none"]
                IN /\ cfg_result' = [cfg_result EXCEPT
                            ![c] = Some(ConfigResult(c_call, fetched))]
                   /\ cfg_call' = [cfg_call EXCEPT ![c] = Some(c_call)]
                   /\ UNCHANGED _prod_fetcher
           ELSE LET old == Get(_prod_fetcher)
                    fetcher == IF ok THEN [cache |-> old.cache + 1, last_fetch |-> "fresh"]
                               ELSE old
                    fetched == IF cfg_pc[c] = "initialize" /\ fetcher.cache = 0
                               THEN Raise("Exception",
                                          <<"Failed to load configuration from remote: ">>)
                               ELSE Return(fetcher)
                    c_call == [Get(cfg_call[c]) EXCEPT !.fetch_failed = ~ok,
                                                      !.received = Received]
                IN /\ _prod_fetcher' = Some(fetcher)
                   /\ cfg_result' = [cfg_result EXCEPT
                            ![c] = Some(ConfigResult(c_call, fetched))]
                   /\ cfg_call' = [w \in Coroutines |->
                         IF w = c THEN Some(c_call)
                         ELSE IF cfg_pc[w] = "waiting" /\ ok
                         THEN Some([Get(cfg_call[w]) EXCEPT
                                        !.refreshed = Some(fetcher.cache)])
                         ELSE cfg_call[w]]
        /\ _fetcher_lock' = None
        /\ fetch_log' = SelectSeq(fetch_log, LAMBDA x : x # c)
        /\ cfg_pc' = [cfg_pc EXCEPT ![c] = "done"]
    /\ UNCHANGED <<close_pc, nonConfigVars>>

\* the caller takes the result
ConfigReturn ==
    /\ \E c \in Coroutines :
        /\ cfg_pc[c] = "done"
        /\ cfg_pc' = [cfg_pc EXCEPT ![c] = "idle"]
        /\ cfg_call' = [cfg_call EXCEPT ![c] = None]
        /\ cfg_result' = [cfg_result EXCEPT ![c] = None]
    /\ UNCHANGED <<_prod_fetcher, _fetcher_lock, fetch_log, close_pc, nonConfigVars>>

\* REFRESH_INTERVAL_SECONDS pass since last_fetch; a fetch gives up after 10 seconds,
\* so nobody is inside or waiting for the lock for that long
CacheGoesStale ==
    /\ ~IsNone(_prod_fetcher)
    /\ Get(_prod_fetcher).last_fetch = "fresh"
    /\ Get(_prod_fetcher).cache < MaxVersion
    /\ IsNone(_fetcher_lock)
    /\ \A c \in Coroutines : cfg_pc[c] # "waiting"
    /\ _prod_fetcher' = Some([Get(_prod_fetcher) EXCEPT !.last_fetch = "stale"])
    /\ UNCHANGED <<_fetcher_lock, cfg_pc, cfg_call, cfg_result, fetch_log, close_pc,
                   nonConfigVars>>

ConfigNext ==
    \/ GetConfigFetcherCall
    \/ GetConfigFetcherAcquire
    \/ FetchConfigDone
    \/ ConfigReturn
    \/ CacheGoesStale

ConfigSpec == Init /\ [][ConfigNext]_vars

\* ------------------------------------------------------------- close_config_fetchers
\* `if _prod_fetcher: await _prod_fetcher.close()`: the session is closed; no lock
\* is taken
CloseConfigFetchersCall ==
    /\ close_pc = "idle"
    /\ ~IsNone(_prod_fetcher)
    /\ close_pc' = "closing"
    /\ UNCHANGED <<_prod_fetcher, _fetcher_lock, cfg_pc, cfg_call, cfg_result, fetch_log,
                   nonConfigVars>>

\* `_prod_fetcher = None`
CloseConfigFetchersDone ==
    /\ close_pc = "closing"
    /\ _prod_fetcher' = None
    /\ close_pc' = "idle"
    /\ UNCHANGED <<_fetcher_lock, cfg_pc, cfg_call, cfg_result, fetch_log, nonConfigVars>>

CloseNext ==
    \/ ConfigNext
    \/ CloseConfigFetchersCall
    \/ CloseConfigFetchersDone

\* the routing strategy plays no part here: one client's is taken
CloseInit == Init /\ self_routing_strategy = BEST_PRICE

CloseSpec == CloseInit /\ [][CloseNext]_vars

\* ------------------------------------------------------------- properties
InTrade == call = "trade"
OtherPlatform(platform) == IF platform = CCA THEN MM ELSE CCA
ProbedOption(platform) ==
    IF platform = CCA THEN Get(cross_chain_access_option) ELSE Get(market_maker_option)
Executed(i) == i <= Len(executions) /\ ~IsNone(executions[i].result)
ExecutionRaised(i) == Executed(i) /\ Get(executions[i].result).kind = "raise"
ExecutionReturned(i) == Executed(i) /\ Get(executions[i].result).kind = "return"
FallbackStrategies == {BEST_PRICE, CROSS_CHAIN_ACCESS_FIRST, MARKET_MAKER_FIRST}
OnlyStrategies == {CROSS_CHAIN_ACCESS_ONLY, MARKET_MAKER_ONLY}
NamedPlatform(s) == IF s = CROSS_CHAIN_ACCESS_ONLY THEN CCA ELSE MM
OutcomeRaises(type) ==
    ~IsNone(outcome) /\ Get(outcome).kind = "raise" /\ Get(outcome).type = type

\* C1: in trade(), when the primary executor raised, the strategy is BEST_PRICE or
\* a *_FIRST one and the other venue's option was available, the other venue's
\* executor is the next thing invoked, as fallback; when it returns a TradeResult,
\* trade() returns that result.
C1_FallbackPending ==
    InTrade /\ ExecutionRaised(1) /\ Get(strategy) \in FallbackStrategies
        /\ ProbedOption(OtherPlatform(executions[1].platform)).available
        /\ Len(executions) = 1
C1_FallbackState ==
    (InTrade /\ ExecutionRaised(1) /\ Get(strategy) \in FallbackStrategies
        /\ ProbedOption(OtherPlatform(executions[1].platform)).available)
    => /\ \/ Len(executions) = 1 /\ pc = "exec" /\ phase = "fallback"
          \/ /\ Len(executions) = 2
             /\ executions[2].platform = OtherPlatform(executions[1].platform)
             /\ executions[2].phase = "fallback"
       /\ ExecutionReturned(2)
            => /\ pc = "done"
               /\ outcome = executions[2].result
               /\ Get(outcome).value.source = executions[2].platform
C1_FallbackStep ==
    C1_FallbackPending
    => /\ Len(executions') = 2
       /\ executions'[2].platform = OtherPlatform(executions[1].platform)
       /\ pc' = "exec_wait"
C1_FallbackAfterPrimaryFailure ==
    [] C1_FallbackState /\ [][C1_FallbackStep]_vars
C1_Witness ==
    InTrade /\ pc = "done" /\ ExecutionRaised(1) /\ ExecutionReturned(2)
        /\ ~IsNone(outcome) /\ Get(outcome).kind = "return"

\* C2: under a *_ONLY strategy select_platform raises NoLiquidityException whenever
\* the named venue is unavailable, even if the other venue is available, and
\* trade() never invokes the other venue's executor, not even after the named
\* venue's executor failed.
C2_OnlyNeverSubstitutes ==
    /\ (call = "select_platform" /\ pc = "done"
            /\ Get(router_in).strategy \in OnlyStrategies)
       => LET named == IF Get(router_in).strategy = CROSS_CHAIN_ACCESS_ONLY
                       THEN Get(router_in).cross_chain_access_option
                       ELSE Get(router_in).market_maker_option
          IN IF named.available /\ named.quote # None
             THEN outcome = Some(Return(named))
             ELSE OutcomeRaises("NoLiquidityException")
    /\ (InTrade /\ ~IsNone(strategy) /\ Get(strategy) \in OnlyStrategies)
       => /\ Len(executions) <= 1
          /\ \A i \in 1..Len(executions) :
                executions[i].platform = NamedPlatform(Get(strategy))
          /\ (pc = "done" /\ ~ProbedOption(NamedPlatform(Get(strategy))).available)
                => executions = <<>> /\ OutcomeRaises("NoLiquidityException")
C2_Witness ==
    InTrade /\ pc = "done" /\ ExecutionRaised(1)
        /\ Get(strategy) = MARKET_MAKER_ONLY
        /\ Get(cross_chain_access_option).available
        /\ ~IsNone(outcome) /\ Get(outcome).kind = "raise"

\* C3: trade() raises AllPlatformsFailedException exactly when the primary executor
\* was invoked and raised and the fallback executor was then invoked and raised too;
\* the message contains the primary and the fallback error message.
C3_AllPlatformsFailed ==
    (InTrade /\ pc = "done")
    => LET both == ExecutionRaised(1) /\ ExecutionRaised(2)
       IN /\ OutcomeRaises("AllPlatformsFailedException") <=> both
          /\ both => /\ executions[1].phase = "primary"
                     /\ executions[2].phase = "fallback"
                     /\ Contains(Get(outcome).msg, Get(executions[1].result).msg)
                     /\ Contains(Get(outcome).msg, Get(executions[2].result).msg)
C3_Witness ==
    InTrade /\ pc = "done" /\ OutcomeRaises("AllPlatformsFailedException")
        /\ Get(executions[1].result).msg # Get(executions[2].result).msg

\* C4 (as claimed): when the primary executor raised and no fallback is attempted,
\* the exception that reaches the caller is the executor's own exception.
NoFallbackCase ==
    InTrade /\ pc = "done" /\ ExecutionRaised(1)
        /\ \/ Get(strategy) \in OnlyStrategies
           \/ ~ProbedOption(OtherPlatform(executions[1].platform)).available
C4_OriginalErrorPropagated ==
    NoFallbackCase => outcome = executions[1].result

\* C4 (amended): in that case trade() raises a new TradingException whose message is
\* "Trade failed: " followed by the message of the executor's exception, and no
\* second executor is invoked.
C4_WrappedInTradingException ==
    NoFallbackCase
    => /\ Len(executions) = 1
       /\ OutcomeRaises("TradingException")
       /\ Get(outcome).msg = <<"Trade failed: ">> \o Get(executions[1].result).msg
C4_Witness ==
    NoFallbackCase /\ Get(strategy) = BEST_PRICE
        /\ Get(executions[1].result).type = "MarketMakerWeb3Exception"

\* C5: an executor is invoked, as primary or as fallback, only for a venue whose
\* probed option is available, and select_platform returns only options that are
\* available and carry a quote.
C5_OnlyAvailableExecuted ==
    /\ InTrade
       => /\ \A i \in 1..Len(executions) :
                ProbedOption(executions[i].platform).available
          /\ ~IsNone(selected)
                => Get(selected).available /\ Get(selected).quote # None
    /\ (call = "select_platform" /\ pc = "done" /\ Get(outcome).kind = "return")
       => /\ Get(outcome).value.available
          /\ Get(outcome).value.quote # None
          /\ Get(outcome).value \in {Get(router_in).cross_chain_access_option,
                                    Get(router_in).market_maker_option}
C5_Witness ==
    InTrade /\ Len(executions) = 2 /\ executions[2].phase = "fallback"
        /\ ProbedOption(executions[2].platform).available

RouterDone == call = "select_platform" /\ pc = "done"
Usable(option) == option.available /\ option.quote # None

\* C6: for every strategy and direction select_platform raises NoLiquidityException
\* when neither option is available, and the message contains the error string of
\* the Cross-Chain Access option and that of the Market Maker option.
C6_Holds(c, m, r) ==
    (~Usable(c) /\ ~Usable(m))
    => /\ r.kind = "raise"
       /\ r.type = "NoLiquidityException"
       /\ c.error # None => Contains(r.msg, Get(c.error))
       /\ m.error # None => Contains(r.msg, Get(m.error))
C6_NoLiquidityCarriesErrors ==
    /\ RouterDone
       => C6_Holds(Get(router_in).cross_chain_access_option,
                   Get(router_in).market_maker_option, Get(outcome))
    /\ (InTrade /\ pc = "done" /\ ~IsNone(cross_chain_access_option))
       => C6_Holds(Get(cross_chain_access_option), Get(market_maker_option),
                   Get(outcome))
C6_Witness ==
    /\ RouterDone
    /\ Get(router_in).strategy = MARKET_MAKER_FIRST
    /\ ~Usable(Get(router_in).cross_chain_access_option)
    /\ ~Usable(Get(router_in).market_maker_option)
    /\ Get(router_in).cross_chain_access_option.error = Some(<<"Market closed">>)
    /\ Get(router_in).market_maker_option.error = Some(<<"timeout">>)
    /\ OutcomeRaises("NoLiquidityException")

\* the rate of a usable option as the fraction buy_amount / sell_amount (0 when
\* sell_amount is 0), compared by cross-multiplication
RateNum(option) ==
    IF Get(option.quote).sell_amount.n = 0 THEN 0
    ELSE Get(option.quote).buy_amount.n * Get(option.quote).sell_amount.d
RateDen(option) ==
    IF Get(option.quote).sell_amount.n = 0 THEN 1
    ELSE Get(option.quote).buy_amount.d * Get(option.quote).sell_amount.n
RateLower(a, b) == RateNum(a) * RateDen(b) < RateNum(b) * RateDen(a)
RateEqual(a, b) == RateNum(a) * RateDen(b) = RateNum(b) * RateDen(a)

\* C7: under BEST_PRICE the only available venue is returned; with both available
\* the lower rate wins a buy, the higher rate wins a sell, and Cross-Chain Access
\* is returned in both directions when the rates are equal.
C7_Holds(c, m, b, r) ==
    /\ (Usable(c) /\ ~Usable(m)) => r = Return(c)
    /\ (Usable(m) /\ ~Usable(c)) => r = Return(m)
    /\ (Usable(c) /\ Usable(m))
       => /\ RateEqual(c, m) => r = Return(c)
          /\ (b /\ RateLower(c, m)) => r = Return(c)
          /\ (b /\ RateLower(m, c)) => r = Return(m)
          /\ (~b /\ RateLower(m, c)) => r = Return(c)
          /\ (~b /\ RateLower(c, m)) => r = Return(m)
C7_BestPrice ==
    /\ (RouterDone /\ Get(router_in).strategy = BEST_PRICE)
       => C7_Holds(Get(router_in).cross_chain_access_option,
                   Get(router_in).market_maker_option,
                   Get(router_in).is_buy, Get(outcome))
    /\ (InTrade /\ ~IsNone(selected) /\ Get(strategy) = BEST_PRICE)
       => C7_Holds(Get(cross_chain_access_option), Get(market_maker_option),
                   is_buy, Return(Get(selected)))
C7_Witness ==
    /\ RouterDone
    /\ Get(router_in).strategy = BEST_PRICE
    /\ ~Get(router_in).is_buy
    /\ Usable(Get(router_in).cross_chain_access_option)
    /\ Usable(Get(router_in).market_maker_option)
    /\ RateEqual(Get(router_in).cross_chain_access_option,
                 Get(router_in).market_maker_option)
    /\ RateNum(Get(router_in).market_maker_option) > 0
    /\ Get(Get(router_in).cross_chain_access_option.quote).sell_amount
         # Get(Get(router_in).market_maker_option.quote).sell_amount
    /\ outcome = Some(Return(Get(router_in).cross_chain_access_option))

\* C8: under a *_FIRST strategy, when at least one venue is available, the preferred
\* venue is returned if it is available and the other venue otherwise, whatever the
\* two rates and the direction.
C8_Holds(preferred, other, r) ==
    (Usable(preferred) \/ Usable(other))
    => r = Return(IF Usable(preferred) THEN preferred ELSE other)
C8_PreferredFirst ==
    /\ (RouterDone /\ Get(router_in).strategy = CROSS_CHAIN_ACCESS_FIRST)
       => C8_Holds(Get(router_in).cross_chain_access_option,
                   Get(router_in).market_maker_option, Get(outcome))
    /\ (RouterDone /\ Get(router_in).strategy = MARKET_MAKER_FIRST)
       => C8_Holds(Get(router_in).market_maker_option,
                   Get(router_in).cross_chain_access_option, Get(outcome))
    /\ (InTrade /\ ~IsNone(selected) /\ Get(strategy) = CROSS_CHAIN_ACCESS_FIRST)
       => C8_Holds(Get(cross_chain_access_option), Get(market_maker_option),
                   Return(Get(selected)))
    /\ (InTrade /\ ~IsNone(selected) /\ Get(strategy) = MARKET_MAKER_FIRST)
       => C8_Holds(Get(market_maker_option), Get(cross_chain_access_option),
                   Return(Get(selected)))
C8_Witness ==
    /\ RouterDone
    /\ Get(router_in).strategy = MARKET_MAKER_FIRST
    /\ Get(router_in).is_buy
    /\ Usable(Get(router_in).cross_chain_access_option)
    /\ Usable(Get(router_in).market_maker_option)
    /\ RateLower(Get(router_in).cross_chain_access_option,
                 Get(router_in).market_maker_option)
    /\ outcome = Some(Return(Get(router_in).market_maker_option))

\* C9: trade() with both amounts or with neither raises ValueError before any quote
\* request, probe, routing decision or executor call; buy() and sell() do the same
\* for rwa_amount / usdc_amount before any authentication, status check or transfer.
BothOrNeither(a, b) == (a # None /\ b # None) \/ (a = None /\ b = None)
C9_ValidationFirst ==
    /\ (InTrade /\ BothOrNeither(Get(args).from_amount, Get(args).to_amount))
       => /\ pc = "done"
          /\ OutcomeRaises("ValueError")
          /\ events = <<>>
          /\ executions = <<>>
          /\ market_maker_option = None
          /\ cross_chain_access_option = None
          /\ selected = None
    /\ (call \in {"cca_buy", "cca_sell"}
            /\ BothOrNeither(Get(cca_args).rwa_amount, Get(cca_args).usdc_amount))
       => /\ events = <<>>
          /\ pc = "cca_direct"
                => cca_pc = "finished" /\ Get(exec_result).kind = "raise"
                       /\ Get(exec_result).type = "ValueError"
          /\ pc = "done" => OutcomeRaises("ValueError")
C9_Witness ==
    /\ InTrade
    /\ pc = "done"
    /\ Get(args).from_amount # None
    /\ Get(args).to_amount # None
    /\ OutcomeRaises("ValueError")

\* C10: the probes never raise: a failed quote request gives an option with
\* available = False, no quote and an error string describing the failure; a
\* successful one gives available = True with the quote.
C10_Holds(platform, result, option) ==
    /\ option.platform = platform
    /\ result.kind = "return"
       => option.available /\ option.quote = Some(result.value)
    /\ result.kind = "raise"
       => /\ ~option.available
          /\ option.quote = None
          /\ option.error # None
          /\ \/ option.error = Some(result.msg)
             \/ /\ platform = CCA
                /\ result.type = "MarketClosedException"
                /\ option.error = Some(<<"Market closed">>)
C10_ProbesNeverRaise ==
    InTrade
    => /\ ~IsNone(mm_quote_result)
          => /\ ~IsNone(market_maker_option)
             /\ C10_Holds(MM, Get(mm_quote_result), Get(market_maker_option))
       /\ ~IsNone(cca_quote_result)
          => /\ ~IsNone(cross_chain_access_option)
             /\ C10_Holds(CCA, Get(cca_quote_result), Get(cross_chain_access_option))
       /\ (~IsNone(outcome) /\ Get(outcome).kind = "raise")
          => Get(outcome).type \in {"ValueError", "NoLiquidityException",
                                    "TradingException", "AllPlatformsFailedException"}
C10_Witness ==
    /\ InTrade
    /\ pc = "route"
    /\ ~IsNone(cca_quote_result)
    /\ Get(mm_quote_result).kind = "raise"
    /\ Get(cca_quote_result).kind = "return"
    /\ ~Get(market_maker_option).available
    /\ Get(cross_chain_access_option).available


InEvents(e) == \E i \in 1..Len(events) : events[i] = e
CountEvents(e) == Cardinality({i \in 1..Len(events) : events[i] = e})

CcaDirect == call \in {"cca_buy", "cca_sell"}

\* what buy / sell came back with, once it has
CcaResult ==
    IF cca_pc = "finished" THEN exec_result
    ELSE IF CcaDirect /\ pc = "done" THEN outcome
    ELSE None

CcaRaised(types) == ~IsNone(CcaResult) /\ IsRaise(Get(CcaResult)) /\ Get(CcaResult).type \in types

\* transfer_token(...) has been called
TransferIssued == transfers # <<>> \/ ~IsNone(cca_local.tx_hash) \/ "tx_hash" \in cca_local.coroutines

AvailabilityPassed == cca_local.is_available = Some(TRUE)
AvailabilityFailed == cca_local.is_available = Some(FALSE)

\* the amount Step 4 needs and the amount it found
FundsNeeded ==
    IF Get(cca_args).side = "buy" THEN cca_local.final_usdc ELSE cca_local.final_rwa
FundsPassed ==
    /\ ~IsNone(cca_local.funds)
    /\ ~IsNone(FundsNeeded)
    /\ DecLe(Get(FundsNeeded), Get(cca_local.funds))
\* Step 4 read the funds, or what it took for them, and did not let the trade on
FundsFailed ==
    \/ ~IsNone(cca_local.funds) /\ ~FundsPassed
    \/ "rwa_balance" \in cca_local.coroutines

\* C12: the transfer is issued only after the market-hours, account-status and funds
\* checks have passed, and when one of them fails buy / sell raises
\* MarketClosedException, AccountBlockedException or InsufficientFundsException
\* and nothing is transferred
C12_ChecksBeforeTransfer ==
    /\ TransferIssued => AvailabilityPassed /\ FundsPassed
    /\ (AvailabilityFailed /\ ~IsNone(CcaResult)) =>
            /\ CcaRaised({"MarketClosedException", "AccountBlockedException"})
            /\ transfers = <<>>
    /\ FundsFailed =>
            /\ CcaRaised({"InsufficientFundsException"})
            /\ transfers = <<>>


ConfirmedTransfers == {i \in 1..Len(transfers) : transfers[i].status = "success"}

C20_TokenHeldAndFresh ==
    \A i \in 1..Len(api_calls) : api_calls[i].auth_token /\ ~api_calls[i].expired


\* ------------------------------------------------------------- Market Maker executor
MmOfferSelected == ~IsNone(mm_local.selected_offer)
MmOffer == Get(mm_local.selected_offer)

\* what MarketMakerClient.trade came back with, once it has
MmResult ==
    IF mm_pc = "finished" THEN exec_result
    ELSE IF call = "mm_trade" /\ pc = "done" THEN outcome
    ELSE None

DynamicTakes == {i \in 1..Len(mm_txs) : mm_txs[i].function = "takeOfferDynamic"}
Approvals == {i \in 1..Len(mm_txs) : mm_txs[i].function = "approve"}

ExecutorResult ==
    IF ~IsNone(exec_result) THEN exec_result
    ELSE IF pc = "done" /\ call \in {"cca_buy", "cca_sell", "mm_trade"} THEN outcome
    ELSE None

Takes == {i \in 1..Len(mm_txs) : mm_txs[i].function # "approve"}

\* every step of the Cross-Chain Access protocol succeeded
CcaStepsSucceeded ==
    /\ Len(transfers) = 1
    /\ transfers[1].status = "success"
    /\ cca_local.order_called
    /\ ~IsNone(cca_local.order_id)

\* the take transaction was confirmed with success status
MmStepsSucceeded ==
    /\ Takes # {}
    /\ \A i \in Takes : mm_txs[i].status = "success"

\* a step of the venue's protocol failed
StepFailed ==
    \/ \E i \in 1..Len(transfers) : transfers[i].status # "success"
    \/ cca_local.order_called /\ IsNone(cca_local.order_id)
    \/ \E i \in 1..Len(mm_txs) : mm_txs[i].status # "success"

InFlight == {c \in Coroutines : cfg_pc[c] \in {"initialize", "refresh"}}

\* c waited for the lock while a fetch that succeeded was in flight, and is back
WaitedForRefresh(c) ==
    /\ cfg_pc[c] = "done"
    /\ Get(cfg_call[c]).waited
    /\ ~IsNone(Get(cfg_call[c]).refreshed)

AddressWithoutConfig(c) ==
    /\ cfg_pc[c] = "done"
    /\ Get(cfg_call[c]).fn # "get_config_fetcher"
    /\ Get(cfg_call[c]).fetch_failed
    /\ Get(_prod_fetcher).cache = 0

\* C19: when the remote configuration cannot be fetched,
\* get_market_maker_manager_address returns the static table's address of the
\* chain and raises only for a chain the table does not hold
C19_StaticFallback ==
    \A c \in Coroutines :
        AddressWithoutConfig(c) =>
            IF Get(cfg_call[c]).chain_id \in LegacyChains
            THEN Get(cfg_result[c]) = Return(LegacyAddress(Get(cfg_call[c]).chain_id))
            ELSE IsRaise(Get(cfg_result[c]))

\* ------------------------------------------------------------- Step 3: round trip
\* |x - y|, over the least common denominator
DecAbsDiff(x, y) ==
    LET l == (x.d \div GCD(x.d, y.d)) * y.d
        a == x.n * (l \div x.d)
        b == y.n * (l \div y.d)
    IN Dec(IF a >= b THEN a - b ELSE b - a, l)

\* x <= k / (m * 10^places), for x >= 0
WithinUnits(x, k, m, places) ==
    IF 10^places % x.d = 0
    THEN m * x.n * (10^places \div x.d) <= k
    ELSE m * x.n <= (k * x.d) \div 10^places

RwaGiven == AmountTruthy(Get(cca_args).rwa_amount)

AmountsCalculated ==
    /\ cca_pc = "funds"
    /\ ~IsNone(cca_local.final_rwa)
    /\ ~IsNone(cca_local.final_usdc)

\* the computed amount mapped back through the price, against the given amount
RoundTripError ==
    IF RwaGiven
    THEN DecAbsDiff(DecDiv(Get(cca_local.final_usdc), Get(cca_local.price)),
                    Get(Get(cca_args).rwa_amount))
    ELSE DecAbsDiff(DecMul(Get(cca_local.final_rwa), Get(cca_local.price)),
                    Get(Get(cca_args).usdc_amount))

\* C21 as stated: for every positive price, side and given amount, the other
\* amount mapped back through the price differs from the given amount by at most
\* one rounding unit of the given amount's asset (10^-9 RWA, 10^-2 USDC)
C21_RoundTripWithinOneUnit ==
    AmountsCalculated =>
        WithinUnits(RoundTripError, 1, 1,
                    IF RwaGiven THEN RWA_DECIMALS ELSE USDC_DECIMALS)

\* C21 amended: each computed amount is within half a rounding unit of its OWN
\* asset of the exact product or quotient: a given usdc_amount comes back within
\* price * 0.5 * 10^-9 USDC, a given rwa_amount gives a final_usdc within
\* 0.005 USDC of rwa_amount * price
C21_RoundTripTolerance ==
    AmountsCalculated =>
        IF RwaGiven
        THEN WithinUnits(DecAbsDiff(Get(cca_local.final_usdc),
                                    DecMul(Get(Get(cca_args).rwa_amount),
                                           Get(cca_local.price))),
                         1, 2, USDC_DECIMALS)
        ELSE /\ WithinUnits(RoundTripError, Get(cca_local.price).n,
                            2 * Get(cca_local.price).d, RWA_DECIMALS)
             /\ WithinUnits(RoundTripError, 1, 1, USDC_DECIMALS)

\* a given rwa_amount whose USDC value was rounded
C21_Witness ==
    /\ AmountsCalculated
    /\ RwaGiven
    /\ ~DecEq(Get(cca_local.final_usdc),
              DecMul(Get(Get(cca_args).rwa_amount), Get(cca_local.price)))

\* a given usdc_amount whose RWA quotient was rounded
C21_WitnessUsdcGiven ==
    /\ AmountsCalculated
    /\ ~RwaGiven
    /\ RoundTripError.n # 0

\* ------------------------------------------------------------- market hours
MarketChecked == ~IsNone(mh_is_open)

\* the instant is s seconds after Monday-to-Friday midnight, on the second
OnWeekdayAt(second) ==
    /\ Get(mh_utc).weekday \in 0..4
    /\ Get(mh_utc).second = second
    /\ Get(mh_utc).microsecond = 0

\* C22: is_market_open(dt) is true exactly when dt, in UTC, falls on Monday to
\* Friday with 14:30:00 <= time of day <= 21:00:00; 14:30:00 and 21:00:00 are
\* open, one second before 14:30:00 and one second after 21:00:00 are closed,
\* and every Saturday or Sunday instant is closed
C22_OpenExactlyInMarketHours ==
    MarketChecked =>
        /\ Get(mh_is_open) =
                (/\ Get(mh_utc).weekday \in 0..4
                 /\ Get(mh_utc).second >= 14 * 3600 + 30 * 60
                 /\ \/ Get(mh_utc).second < 21 * 3600
                    \/ Get(mh_utc).second = 21 * 3600 /\ Get(mh_utc).microsecond = 0)
        /\ OnWeekdayAt(14 * 3600 + 30 * 60) => Get(mh_is_open)
        /\ OnWeekdayAt(21 * 3600) => Get(mh_is_open)
        /\ OnWeekdayAt(14 * 3600 + 30 * 60 - 1) => ~Get(mh_is_open)
        /\ OnWeekdayAt(21 * 3600 + 1) => ~Get(mh_is_open)
        /\ Get(mh_utc).weekday \in {5, 6} => ~Get(mh_is_open)

\* Friday 21:00:00 UTC, asked with the wall clock of Tokyo (Saturday 06:00:00)
C22_Witness ==
    /\ MarketChecked
    /\ Get(mh_utc).weekday = 4
    /\ OnWeekdayAt(21 * 3600)
    /\ Get(mh_dt).weekday = 5
    /\ Get(mh_is_open)

\* ------------------------------------------------------------- quotes
\* rate = buy_amount / sell_amount, 0 when sell_amount = 0
RateIsBuyPerSell(quote) ==
    IF DecIsZero(quote.sell_amount)
    THEN DecIsZero(quote.rate)
    ELSE DecEq(quote.rate, DecDiv(quote.buy_amount, quote.sell_amount))

QuoteReturned(result) == ~IsNone(result) /\ IsReturn(Get(result))

\* C23: every Quote a venue's get_quote returns (Market Maker RPQ client,
\* Cross-Chain Access client) has rate = buy_amount / sell_amount, and rate = 0
\* when sell_amount = 0
C23_RateIsBuyPerSell ==
    /\ QuoteReturned(mm_quote_result) => RateIsBuyPerSell(Get(mm_quote_result).value)
    /\ QuoteReturned(cca_quote_result) => RateIsBuyPerSell(Get(cca_quote_result).value)

\* ------------------------------------------------------------- BEST_PRICE
ZeroAmountQuote(option) ==
    ~IsNone(option.quote) /\ DecIsZero(Get(option.quote).sell_amount)

PositiveRate(option) == DecLt(DecZero, get_effective_rate(option))

OtherOption(chosen, cca_option, mm_option) ==
    IF chosen.platform = CCA THEN mm_option ELSE cca_option

\* the choice never falls on a zero-amount quote while the other venue's rate is positive
ZeroNeverBeatsPositive(chosen, cca_option, mm_option) ==
    (OptionAvailable(cca_option) /\ OptionAvailable(mm_option)) =>
        ~(/\ ZeroAmountQuote(chosen)
          /\ PositiveRate(OtherOption(chosen, cca_option, mm_option)))

\* select_platform was called with BEST_PRICE and returned an option
BestPriceReturned ==
    /\ call = "select_platform"
    /\ pc = "done"
    /\ Get(router_in).strategy = BEST_PRICE
    /\ IsReturn(Get(outcome))

\* trade() routed under BEST_PRICE
BestPriceRouted ==
    /\ call = "trade"
    /\ ~IsNone(selected)
    /\ Get(strategy) = BEST_PRICE

\* C24: under BEST_PRICE with both venues available, a venue whose quote has
\* sell_amount = 0 (effective rate 0) is never selected over a venue whose
\* effective rate is positive, for buys and for sells, whichever venue holds the
\* zero-amount quote
C24_ZeroRateNeverSelected ==
    /\ BestPriceReturned =>
            ZeroNeverBeatsPositive(Get(outcome).value,
                                   Get(router_in).cross_chain_access_option,
                                   Get(router_in).market_maker_option)
    /\ BestPriceRouted =>
            ZeroNeverBeatsPositive(Get(selected), Get(cross_chain_access_option),
                                   Get(market_maker_option))

\* C25: BEST_PRICE selects the best price for the caller: for a trade given by
\* from_amount (is_buy = true) with both platforms available, the platform
\* select_platform returns has a quote yielding at least as much buy_amount per
\* unit of sell_amount as the other platform's quote
C25_BestPriceForSpender ==
    (/\ BestPriceRouted
     /\ ~IsNone(Get(args).from_amount)
     /\ OptionAvailable(Get(cross_chain_access_option))
     /\ OptionAvailable(Get(market_maker_option))) =>
        DecLe(get_effective_rate(OtherOption(Get(selected),
                                             Get(cross_chain_access_option),
                                             Get(market_maker_option))),
              get_effective_rate(Get(selected)))

\* ------------------------------------------------------------- take errors
TakeReverted == ~IsNone(mm_local.take_offer_raised)

RevertedWith(phrase) == Contains(Get(mm_local.contract_error).msg, <<phrase>>)

C27_EachVenueAtMostOnce ==
    InTrade =>
        /\ CountEvents("mm_get_quote") <= 1
        /\ CountEvents("cca_get_quote") <= 1
        /\ Len(executions) <= 2
        /\ CountEvents("execute") = Len(executions)
        /\ \A i, j \in 1..Len(executions) :
                i < j => /\ executions[i].platform # executions[j].platform
                         /\ ExecutionRaised(i)
        /\ Len(executions) = 2 =>
                /\ ProbedOption(executions[2].platform).available
                /\ ~IsNone(mm_quote_result) =>
                        Get(market_maker_option)
                            = _get_market_maker_option(Get(mm_quote_result))
                /\ ~IsNone(cca_quote_result) =>
                        Get(cross_chain_access_option)
                            = _get_cross_chain_access_option(Get(cca_quote_result))

\* both venues were executed and both failed
C27_Witness ==
    /\ InTrade
    /\ pc = "done"
    /\ Len(executions) = 2
    /\ ExecutionRaised(1)
    /\ ExecutionRaised(2)
    /\ CountEvents("mm_get_quote") = 1
    /\ CountEvents("cca_get_quote") = 1

\* ------------------------------------------------------------- the fetcher handed out
\* get_config_fetcher came back to c with a fetcher
FetcherReturned(c) ==
    /\ cfg_pc[c] = "done"
    /\ Get(cfg_call[c]).fn = "get_config_fetcher"
    /\ IsReturn(Get(cfg_result[c]))

\* C28: after any sequence of successful and failed remote fetches, every
\* RemoteConfigFetcher that get_config_fetcher returns has a loaded configuration
\* (non-empty cache); when the configuration cannot be loaded the call raises,
\* also on the calls that follow a failed first initialization
C28_ReturnedFetcherIsLoaded ==
    \A c \in Coroutines :
        FetcherReturned(c) => Get(cfg_result[c]).value.cache > 0

\* ------------------------------------------------------------- closing the singletons
\* C29: every write to the configuration singletons happens under the guard:
\* close_config_fetchers cannot interleave with an in-flight get_config_fetcher
\* initialization or refresh, so a caller of get_config_fetcher never receives a
\* fetcher whose HTTP session has been closed or that is no longer the
\* registered singleton
C29_CloseUnderGuard ==
    /\ close_pc = "closing" =>
            \A c \in Coroutines : cfg_pc[c] \notin {"initialize", "refresh"}
    /\ \A c \in Coroutines :
            FetcherReturned(c) => Get(cfg_call[c]).received = "singleton"

\* ------------------------------------------------------------- the asset sent to escrow
\* trade() is executing on Cross-Chain Access
TradeOnCca == call = "cca_trade"

====
